---- MODULE Spec2Model ----
(***************************************************************************)
(* The Alpha Oracle: the plan-run and answer SSE endpoints and the         *)
(* Executor that runs plan steps against the data providers.               *)
(*                                                                         *)
(* One request is modelled at a time (the code shares no mutable state     *)
(* between requests).  `route` says which program the request runs:        *)
(*   "plan-run"      src/app/api/plan-run/route.ts  POST                   *)
(*   "answer"        src/app/api/answer/route.ts    POST                   *)
(*   "executeSteps"  src/lib/agents/executor.ts     Executor.executeSteps  *)
(* The asynchronous bodies are cut at their await points; the heartbeat    *)
(* interval callback and the client disconnecting interleave with them.    *)
(***************************************************************************)
EXTENDS Integers, Sequences, FiniteSets, TLC

\* ------------------------------------------------------------------ bounds
MaxSteps == 2    \* most steps in a plan or batch
MaxTicks == 1    \* most heartbeat callbacks that run during one request
MaxChunks == 2   \* most chunks the answer generator yields

ChunkContents == {1, 2}

\* ------------------------------------------------- provider environment
\* What the providers answer during one executeStep call.  A provider
\* without a key never answers with data (fmp.ts, polygon.ts: the methods
\* return null / [] when isAvailable() is false).
Keywords == {"movers", "quote", "chart", "news", "web"}

BraveOutcomes == {"data", "empty", "throw"}

DefaultEnv ==
  [ polygonKey |-> FALSE, polygonQuote |-> "null", polygonNews |-> "empty",
    fmpKey |-> FALSE, fmpQuote |-> "null", fmpQuoteLight |-> "null",
    fmpCandles |-> "empty", fmpMovers |-> "empty",
    needsFullQuote |-> FALSE,
    wantsGainers |-> FALSE, wantsLosers |-> FALSE, wantsActives |-> FALSE,
    braveNews |-> "data", braveWeb |-> "data",
    braveNewsRetry |-> "data", braveWebRetry |-> "data",
    raceFirst |-> "news" ]

\* polygon.ts PolygonService.isAvailable / fmp.ts FMPService.isAvailable
PolygonIsAvailable(env) == env.polygonKey
FMPIsAvailable(env) == env.fmpKey

\* polygon.ts getQuote: null without a key, null on any failure
PolygonGetQuote(env) ==
  IF ~PolygonIsAvailable(env) THEN "null" ELSE env.polygonQuote

\* polygon.ts getNews: [] without a key, [] on any failure
PolygonGetNews(env) ==
  IF ~PolygonIsAvailable(env) THEN "empty" ELSE env.polygonNews

\* fmp.ts getQuote / getQuoteLight: null without a key, null on any failure
FMPGetQuote(env) == IF ~FMPIsAvailable(env) THEN "null" ELSE env.fmpQuote
FMPGetQuoteLight(env) ==
  IF ~FMPIsAvailable(env) THEN "null" ELSE env.fmpQuoteLight

\* fmp.ts getIntradayChart: [] without a key, [] on any failure
FMPGetIntradayChart(env) ==
  IF ~FMPIsAvailable(env) THEN "empty" ELSE env.fmpCandles

\* fmp.ts getTopGainers / getTopLosers / getMostActives
FMPGetMovers(env) == IF ~FMPIsAvailable(env) THEN "empty" ELSE env.fmpMovers

\* ----------------------------------------------------- outcomes of a call
NoResult ==
  [ step |-> 0, provider |-> "none", data |-> "null",
    summary |-> "absent", error |-> "none" ]

Ret(r) == [ thrown |-> FALSE, message |-> "none", result |-> r ]
Throw(m) == [ thrown |-> TRUE, message |-> m, result |-> NoResult ]

Result(step, provider, data, summary) ==
  [ step |-> step, provider |-> provider, data |-> data,
    summary |-> summary, error |-> "none" ]

\* brave-search searchNews / searchWeb: the result list, or the error thrown
SearchNews(outcome) ==
  IF outcome = "throw" THEN Throw("Brave News API error")
  ELSE Ret([NoResult EXCEPT !.data = IF outcome = "data" THEN "list" ELSE "emptyList"])

SearchWeb(outcome) ==
  IF outcome = "throw" THEN Throw("Brave Web API error")
  ELSE Ret([NoResult EXCEPT !.data = IF outcome = "data" THEN "list" ELSE "emptyList"])

\* formatNewsItems / formatWebResults: "" for an empty list
FormatItems(list) == IF list = "emptyList" THEN "empty" ELSE "text"

\* ------------------------------------------------------- Executor branches
\* A movers step that fetches only the lists the text asks for.
MoversFetched_OnlyAsked(env) ==
  { l \in {"gainers", "losers", "actives"} :
      \/ l = "gainers" /\ env.wantsGainers
      \/ l = "losers" /\ env.wantsLosers
      \/ l = "actives" /\ env.wantsActives }

\* executor.ts executeMarketMoversStep.  The three lists are fetched from
\* FMP, which never throws; a list entry without the numeric fields makes
\* formatMovers throw, and the catch block falls back to a news search.
MoversFetched(env) ==
  { l \in {"gainers", "losers", "actives"} :
      \/ l = "gainers" /\ (env.wantsGainers \/ (~env.wantsLosers /\ ~env.wantsActives))
      \/ l = "losers" /\ (env.wantsLosers \/ (~env.wantsGainers /\ ~env.wantsActives))
      \/ l = "actives" /\ env.wantsActives }

executeMarketMoversStep(step, env) ==
  IF FMPGetMovers(env) = "malformed"
  THEN LET news == SearchNews(env.braveNews)
       IN IF news.thrown THEN news
          ELSE Ret(Result(step, "brave_news", news.result.data,
                          FormatItems(news.result.data)))
  ELSE Ret(Result(step, "fmp_movers", "object", "text"))

\* A quote step without the web-search fallback: the missing quote is
\* returned as the data.
executeQuoteStep_NoFallback(step, env) ==
  IF PolygonIsAvailable(env) /\ PolygonGetQuote(env) # "null"
  THEN Ret(Result(step, "polygon_quote", "quote", "text"))
  ELSE LET quote == IF env.needsFullQuote THEN FMPGetQuote(env)
                    ELSE FMPGetQuoteLight(env)
       IN Ret(Result(step, "fmp_quote",
                     IF quote = "null" THEN "null" ELSE "quote", "text"))

\* executor.ts executeQuoteStep: Polygon, then FMP, then Brave web search
executeQuoteStep(step, env) ==
  IF PolygonIsAvailable(env) /\ PolygonGetQuote(env) # "null"
  THEN Ret(Result(step, "polygon_quote", "quote", "text"))
  ELSE LET quote == IF env.needsFullQuote THEN FMPGetQuote(env)
                    ELSE FMPGetQuoteLight(env)
       IN IF quote = "null"
          THEN LET web == SearchWeb(env.braveWeb)
               IN IF web.thrown THEN web
                  ELSE Ret(Result(step, "brave_web", web.result.data, "text"))
          ELSE Ret(Result(step, "fmp_quote", "quote", "text"))

\* executor.ts executeChartStep: FMP candles, web search when there are none
executeChartStep(step, env) ==
  IF FMPGetIntradayChart(env) = "empty"
  THEN LET web == SearchWeb(env.braveWeb)
       IN IF web.thrown THEN web
          ELSE Ret(Result(step, "brave_web", web.result.data, "text"))
  ELSE Ret(Result(step, "fmp_chart", "list", "text"))

\* executor.ts executeTickerNewsStep: Polygon news, then Brave news
executeTickerNewsStep(step, env) ==
  IF PolygonIsAvailable(env) /\ PolygonGetNews(env) # "empty"
  THEN Ret(Result(step, "polygon_news", "list", "text"))
  ELSE LET news == SearchNews(env.braveNews)
       IN IF news.thrown THEN news
          ELSE Ret(Result(step, "brave_news", news.result.data,
                          FormatItems(news.result.data)))

\* executor.ts executeGeneralNewsStep
executeGeneralNewsStep(step, env) ==
  LET news == SearchNews(env.braveNews)
  IN IF news.thrown THEN news
     ELSE Ret(Result(step, "brave_news", news.result.data,
                     FormatItems(news.result.data)))

\* executor.ts executeWebSearchStep
executeWebSearchStep(step, env) ==
  LET web == SearchWeb(env.braveWeb)
  IN IF web.thrown THEN web
     ELSE Ret(Result(step, "brave_web", web.result.data,
                     FormatItems(web.result.data)))

\* executor.ts executeCombinedTickerStep: Promise.all of quote, news, web.
\* Promise.all rejects with the rejection that happens first (raceFirst).
executeCombinedTickerStep(step, env) ==
  LET news == SearchNews(env.braveNews)
      web == SearchWeb(env.braveWeb)
  IN IF news.thrown /\ web.thrown
     THEN (IF env.raceFirst = "news" THEN news ELSE web)
     ELSE IF news.thrown THEN news
     ELSE IF web.thrown THEN web
     ELSE Ret(Result(step, "combined", "object", "text"))

\* A searchBoth that passes the failure of the parallel search on.
searchBoth_Rethrow(env) ==
  LET news == SearchNews(env.braveNews)
      web == SearchWeb(env.braveWeb)
  IN IF news.thrown THEN Throw(news.message)
     ELSE IF web.thrown THEN Throw(web.message)
     ELSE Ret([news |-> news.result.data, web |-> web.result.data])

\* brave-search searchBoth: both searches in parallel; when either fails,
\* each is run once more with its failure replaced by an empty list.
searchBoth(env) ==
  LET news == SearchNews(env.braveNews)
      web == SearchWeb(env.braveWeb)
  IN IF ~news.thrown /\ ~web.thrown
     THEN Ret([news |-> news.result.data, web |-> web.result.data])
     ELSE LET news2 == SearchNews(env.braveNewsRetry)
              web2 == SearchWeb(env.braveWebRetry)
          IN Ret([news |-> IF news2.thrown THEN "emptyList" ELSE news2.result.data,
                  web |-> IF web2.thrown THEN "emptyList" ELSE web2.result.data])

\* executor.ts executeGeneralSearchStep
executeGeneralSearchStep(step, env) ==
  LET both == searchBoth(env)
  IN IF both.thrown THEN Throw(both.message)
     ELSE Ret(Result(step, "combined", "object", "text"))

\* ------------------------------------------------------------ executeStep
\* A routing that looks for the news keywords before the quote keywords.
Branch_NewsFirst(kw, ticker) ==
  IF "movers" \in kw THEN "movers"
  ELSE IF "news" \in kw THEN (IF ticker THEN "tickerNews" ELSE "generalNews")
  ELSE IF "quote" \in kw /\ ticker THEN "quote"
  ELSE IF "chart" \in kw /\ ticker THEN "chart"
  ELSE IF "web" \in kw THEN "web"
  ELSE IF ticker THEN "combinedTicker"
  ELSE "generalSearch"

\* The branch the keyword checks and the ticker select (first match wins).
Branch(kw, ticker) ==
  IF "movers" \in kw THEN "movers"
  ELSE IF "quote" \in kw /\ ticker THEN "quote"
  ELSE IF "chart" \in kw /\ ticker THEN "chart"
  ELSE IF "news" \in kw THEN (IF ticker THEN "tickerNews" ELSE "generalNews")
  ELSE IF "web" \in kw THEN "web"
  ELSE IF ticker THEN "combinedTicker"
  ELSE "generalSearch"

RunBranch(step, in) ==
  LET b == Branch(in.kw, in.ticker)
  IN CASE b = "movers" -> executeMarketMoversStep(step, in.env)
       [] b = "quote" -> executeQuoteStep(step, in.env)
       [] b = "chart" -> executeChartStep(step, in.env)
       [] b = "tickerNews" -> executeTickerNewsStep(step, in.env)
       [] b = "generalNews" -> executeGeneralNewsStep(step, in.env)
       [] b = "web" -> executeWebSearchStep(step, in.env)
       [] b = "combinedTicker" -> executeCombinedTickerStep(step, in.env)
       [] OTHER -> executeGeneralSearchStep(step, in.env)

\* An executeStep without its catch block: the exception leaves it.
executeStep_NoCatch(step, in) == RunBranch(step, in)

\* A catch block that puts the message of the exception into the summary.
executeStep_ErrorInSummary(step, in) ==
  LET out == RunBranch(step, in)
  IN IF out.thrown
     THEN Ret([ step |-> step, provider |-> "combined", data |-> "null",
                summary |-> out.message, error |-> out.message ])
     ELSE out

\* executor.ts executeStep: the try block around the branches and the catch
\* block that turns an exception into a result with error set and data null.
executeStep(step, in) ==
  LET out == RunBranch(step, in)
  IN IF out.thrown
     THEN Ret([ step |-> step, provider |-> "combined", data |-> "null",
                summary |-> "absent", error |-> out.message ])
     ELSE out

\* ------------------------------------------------- inputs of executeStep
\* The provider answers that matter to a branch; the others keep the
\* default value.
EnvsFor(b) ==
  CASE b = "movers" ->
         { [DefaultEnv EXCEPT !.fmpKey = k, !.fmpMovers = m, !.braveNews = n,
                              !.wantsGainers = g, !.wantsLosers = l,
                              !.wantsActives = a] :
             k \in BOOLEAN, m \in {"empty", "data", "malformed"},
             n \in BraveOutcomes, g \in BOOLEAN, l \in BOOLEAN, a \in BOOLEAN }
    [] b = "quote" ->
         { [DefaultEnv EXCEPT !.polygonKey = pk, !.polygonQuote = pq,
                              !.fmpKey = k, !.fmpQuote = q, !.fmpQuoteLight = ql,
                              !.needsFullQuote = f, !.braveWeb = w] :
             pk \in BOOLEAN, pq \in {"null", "data"}, k \in BOOLEAN,
             q \in {"null", "data"}, ql \in {"null", "data"}, f \in BOOLEAN,
             w \in BraveOutcomes }
    [] b = "chart" ->
         { [DefaultEnv EXCEPT !.fmpKey = k, !.fmpCandles = c, !.braveWeb = w] :
             k \in BOOLEAN, c \in {"empty", "data"}, w \in BraveOutcomes }
    [] b = "tickerNews" ->
         { [DefaultEnv EXCEPT !.polygonKey = pk, !.polygonNews = pn,
                              !.braveNews = n] :
             pk \in BOOLEAN, pn \in {"empty", "data"}, n \in BraveOutcomes }
    [] b = "generalNews" ->
         { [DefaultEnv EXCEPT !.braveNews = n] : n \in BraveOutcomes }
    [] b = "web" ->
         { [DefaultEnv EXCEPT !.braveWeb = w] : w \in BraveOutcomes }
    [] b = "combinedTicker" ->
         { [DefaultEnv EXCEPT !.fmpKey = k, !.fmpQuoteLight = ql,
                              !.braveNews = n, !.braveWeb = w, !.raceFirst = r] :
             k \in BOOLEAN, ql \in {"null", "data"}, n \in BraveOutcomes,
             w \in BraveOutcomes, r \in {"news", "web"} }
    [] OTHER ->
         { [DefaultEnv EXCEPT !.braveNews = n, !.braveWeb = w,
                              !.braveNewsRetry = n2, !.braveWebRetry = w2] :
             n \in BraveOutcomes, w \in BraveOutcomes,
             n2 \in BraveOutcomes, w2 \in BraveOutcomes }

\* A provider without a key has no answer of its own, and an answer nobody
\* reads keeps its default.
Canonical(b, env) ==
  /\ b = "movers" => (env.fmpMovers # "malformed" => env.braveNews = "data")
  /\ ~env.polygonKey => env.polygonQuote = "null" /\ env.polygonNews = "empty"
  /\ ~env.fmpKey => /\ env.fmpQuote = "null" /\ env.fmpQuoteLight = "null"
                    /\ env.fmpCandles = "empty" /\ env.fmpMovers = "empty"
  /\ env.needsFullQuote => env.fmpQuoteLight = "null"
  /\ ~env.needsFullQuote => env.fmpQuote = "null"
  /\ (env.braveNews # "throw" /\ env.braveWeb # "throw") =>
        env.braveNewsRetry = "data" /\ env.braveWebRetry = "data"
  /\ (env.braveNews # "throw" \/ env.braveWeb # "throw") => env.raceFirst = "news"

ExecInputs ==
  UNION { { [kw |-> kw, ticker |-> t, env |-> e] :
              e \in { x \in EnvsFor(Branch(kw, t)) : Canonical(Branch(kw, t), x) } } :
          kw \in SUBSET Keywords, t \in BOOLEAN }

DefaultInput == [kw |-> {}, ticker |-> FALSE, env |-> DefaultEnv]

\* What a call of executeStep met: the branch taken and the exception, if
\* any, a provider call raised inside it.
CallOf(in) ==
  [ branch |-> Branch(in.kw, in.ticker),
    thrown |-> RunBranch(0, in).thrown,
    message |-> RunBranch(0, in).message ]

\* The outcomes executeStep can have for a step of the plan.
StepOutcomes == { executeStep(0, in) : in \in ExecInputs }

\* ------------------------------------------------------------------- text
\* A text is the sequence of its characters.
UpperCase ==
  << "A", "B", "C", "D", "E", "F", "G", "H", "I", "J", "K", "L", "M",
     "N", "O", "P", "Q", "R", "S", "T", "U", "V", "W", "X", "Y", "Z" >>

LowerCase ==
  << "a", "b", "c", "d", "e", "f", "g", "h", "i", "j", "k", "l", "m",
     "n", "o", "p", "q", "r", "s", "t", "u", "v", "w", "x", "y", "z" >>

Digits == {"0", "1", "2", "3", "4", "5", "6", "7", "8", "9"}

IsUpper(c) == \E k \in DOMAIN UpperCase : UpperCase[k] = c

\* \w of a regular expression
IsWordChar(c) ==
  \/ IsUpper(c)
  \/ \E k \in DOMAIN LowerCase : LowerCase[k] = c
  \/ c \in Digits
  \/ c = "_"

\* String.prototype.toLowerCase
toLowerCase(text) ==
  [ p \in DOMAIN text |->
      IF IsUpper(text[p])
      THEN LowerCase[CHOOSE k \in DOMAIN UpperCase : UpperCase[k] = text[p]]
      ELSE text[p] ]

\* String.prototype.includes
includes(text, pat) ==
  \E k \in 0..(Len(text) - Len(pat)) : SubSeq(text, k + 1, k + Len(pat)) = pat

\* a template literal `${a} ${b}`
Space == << " " >>
Join(a, b) == a \o Space \o b

\* \b before position p (1..Len+1): exactly one of the two neighbours is a
\* word character
Boundary(text, p) ==
  LET before == p > 1 /\ IsWordChar(text[p - 1])
      after == p <= Len(text) /\ IsWordChar(text[p])
  IN before # after

\* text.match(/\b[A-Z]{lo,hi}\b/g) and text.match(/\b[A-Z]{lo,hi}\b/): the
\* matches from left to right.  A match starts at a word boundary, takes lo
\* to hi capitals and ends at a word boundary; the search goes on after it.
MatchAt(text, p, lo, hi) ==
  { n \in lo..hi :
      /\ p + n - 1 <= Len(text)
      /\ Boundary(text, p)
      /\ \A k \in p..(p + n - 1) : IsUpper(text[k])
      /\ Boundary(text, p + n) }

RECURSIVE MatchFrom(_, _, _, _)
MatchFrom(text, p, lo, hi) ==
  LET starts == { q \in p..Len(text) : MatchAt(text, q, lo, hi) # {} }
  IN IF starts = {} THEN << >>
     ELSE LET q == CHOOSE s \in starts : \A o \in starts : s <= o
              ns == MatchAt(text, q, lo, hi)
              n == CHOOSE m \in ns : \A o \in ns : o <= m
          IN << SubSeq(text, q, q + n - 1) >>
               \o MatchFrom(text, q + n, lo, hi)

\* [...new Set(list)]: the first occurrence of every element, in order
RECURSIVE Dedupe(_)
Dedupe(list) ==
  IF list = << >> THEN << >>
  ELSE LET front == Dedupe(SubSeq(list, 1, Len(list) - 1))
           last == list[Len(list)]
       IN IF \E k \in DOMAIN front : front[k] = last THEN front
          ELSE Append(front, last)

\* tickers[0] / tickerMatch?.[0]: << >> stands for undefined
First(list) == IF list = << >> THEN << >> ELSE list[1]


\* ------------------------------------------------ executeStep: routing

\* executor.ts needsQuoteData
quoteKeywords ==
  { <<"p", "r", "i", "c", "e">>,
    <<"q", "u", "o", "t", "e">>,
    <<"t", "r", "a", "d", "i", "n", "g">>,
    <<"v", "o", "l", "u", "m", "e">>,
    <<"m", "a", "r", "k", "e", "t", " ", "c", "a", "p">>,
    <<"p", "e">>,
    <<"e", "p", "s">>,
    <<"m", "e", "t", "r", "i", "c", "s">> }

\* executor.ts needsChartData
chartKeywords ==
  { <<"c", "h", "a", "r", "t">>,
    <<"i", "n", "t", "r", "a", "d", "a", "y">>,
    <<"t", "e", "c", "h", "n", "i", "c", "a", "l">>,
    <<"g", "r", "a", "p", "h">>,
    <<"c", "a", "n", "d", "l", "e", "s", "t", "i", "c", "k">>,
    <<"5", "m", "i", "n">>,
    <<"5", " ", "m", "i", "n">> }

\* executor.ts needsNewsData
newsKeywords ==
  { <<"n", "e", "w", "s">>,
    <<"a", "r", "t", "i", "c", "l", "e">>,
    <<"r", "e", "p", "o", "r", "t">>,
    <<"a", "n", "n", "o", "u", "n", "c", "e", "m", "e", "n", "t">>,
    <<"h", "e", "a", "d", "l", "i", "n", "e">>,
    <<"l", "a", "t", "e", "s", "t">>,
    <<"r", "e", "c", "e", "n", "t">> }

\* executor.ts needsWebSearch
webKeywords ==
  { <<"c", "o", "m", "p", "a", "n", "y">>,
    <<"a", "b", "o", "u", "t">>,
    <<"w", "e", "b", "s", "i", "t", "e">>,
    <<"i", "n", "f", "o">>,
    <<"s", "e", "a", "r", "c", "h">>,
    <<"f", "i", "n", "d">> }

\* executor.ts needsMarketMovers
moverKeywords ==
  { <<"m", "o", "v", "e", "r", "s">>,
    <<"g", "a", "i", "n", "e", "r", "s">>,
    <<"l", "o", "s", "e", "r", "s">>,
    <<"a", "c", "t", "i", "v", "e">>,
    <<"a", "c", "t", "i", "v", "e", "s">>,
    <<"t", "o", "p", " ", "s", "t", "o", "c", "k", "s">>,
    <<"b", "e", "s", "t", " ", "p", "e", "r", "f", "o", "r", "m", "i", "n", "g">>,
    <<"w", "o", "r", "s", "t", " ", "p", "e", "r", "f", "o", "r", "m", "i", "n", "g">> }

\* executor.ts executeStep: the words that are no tickers
commonWords ==
  { <<"A", "I">>,
    <<"I", "T">>,
    <<"U", "S">>,
    <<"U", "K">>,
    <<"E", "U">>,
    <<"C", "E", "O">>,
    <<"C", "F", "O">>,
    <<"C", "T", "O">>,
    <<"I", "P", "O">>,
    <<"E", "T", "F">>,
    <<"A", "P", "I">>,
    <<"U", "R", "L">>,
    <<"U", "S", "D">>,
    <<"N", "Y", "S", "E">>,
    <<"N", "A", "S", "D", "A", "Q">> }

needsQuoteData(text) == \E keyword \in quoteKeywords : includes(text, keyword)
needsChartData(text) == \E keyword \in chartKeywords : includes(text, keyword)
needsNewsData(text) == \E keyword \in newsKeywords : includes(text, keyword)
needsWebSearch(text) == \E keyword \in webKeywords : includes(text, keyword)
needsMarketMovers(text) == \E keyword \in moverKeywords : includes(text, keyword)

\* executor.ts executeStep: `${title} ${description} ${context || ''}`
originalText(title, description, context) ==
  Join(Join(title, description), context)

\* The tickers found when the common words are not taken out.
filteredTickers_Unfiltered(text) == Dedupe(MatchFrom(text, 1, 2, 5))

\* executor.ts executeStep: the tickers found in the original-case text
filteredTickers(text) ==
  SelectSeq(Dedupe(MatchFrom(text, 1, 2, 5)), LAMBDA ticker : ticker \notin commonWords)

primaryTicker(text) == First(filteredTickers(text))

\* executor.ts executeMarketMoversStep:221-223  what the text asks for
wantsGainers(query) ==
  includes(query, <<"g", "a", "i", "n", "e", "r">>) \/ includes(query, <<"b", "e", "s", "t">>) \/ includes(query, <<"t", "o", "p">>)

wantsLosers(query) ==
  includes(query, <<"l", "o", "s", "e", "r">>) \/ includes(query, <<"w", "o", "r", "s", "t">>) \/ includes(query, <<"d", "o", "w", "n">>)

wantsActives(query) ==
  includes(query, <<"a", "c", "t", "i", "v", "e">>) \/ includes(query, <<"v", "o", "l", "u", "m", "e">>)

\* executor.ts executeMarketMoversStep:221-229  the provider answers seen
\* through what the text asks for
moversEnv(query, env) ==
  [env EXCEPT !.wantsGainers = wantsGainers(query),
              !.wantsLosers = wantsLosers(query),
              !.wantsActives = wantsActives(query)]

\* The keyword checks of executeStep on the lower-cased text
KeywordsOf(text) ==
  { k \in Keywords :
      \/ k = "movers" /\ needsMarketMovers(text)
      \/ k = "quote" /\ needsQuoteData(text)
      \/ k = "chart" /\ needsChartData(text)
      \/ k = "news" /\ needsNewsData(text)
      \/ k = "web" /\ needsWebSearch(text) }

\* executor.ts executeStep:43-63  what the routing sees of a step's text
InputOfText(title, description, context, env) ==
  LET text == originalText(title, description, context)
  IN [ kw |-> KeywordsOf(toLowerCase(text)),
       ticker |-> primaryTicker(text) # << >>,
       env |-> env ]

\* executor.ts executeStep: the branch taken for a step and its context
BranchOfText(title, description, context) ==
  LET text == originalText(title, description, context)
  IN Branch(KeywordsOf(toLowerCase(text)), primaryTicker(text) # << >>)

\* planner.ts getFallbackPlan:214-221  the title and the description of the
\* two steps of the plan for a ticker and price|quote
QuoteStepTitle(ticker) == <<"G", "e", "t", " ">> \o ticker \o <<" ", "q", "u", "o", "t", "e">>

QuoteStepDescription(ticker) ==
  <<"L", "e", "t", " ", "m", "e", " ", "f", "i", "r", "s", "t", " ", "c", "h", "e", "c", "k", " ">> \o ticker
    \o <<"'", "s", " ", "c", "u", "r", "r", "e", "n", "t", " ", "p", "r", "i", "c", "e", " ", "a", "n", "d", " ", "t", "o", "d", "a", "y", "'", "s", " ", "t", "r", "a", "d", "i", "n", "g", " ", "p", "e", "r", "f", "o", "r", "m", "a", "n", "c", "e">>

AlsoNewsStepTitle(ticker) == <<"G", "e", "t", " ">> \o ticker \o <<" ", "n", "e", "w", "s">>

AlsoNewsStepDescription(ticker) ==
  <<"I", "'", "l", "l", " ", "a", "l", "s", "o", " ", "l", "o", "o", "k", " ", "f", "o", "r", " ", "a", "n", "y", " ", "r", "e", "c", "e", "n", "t", " ", "n", "e", "w", "s", " ", "t", "h", "a", "t", " ", "m", "i", "g", "h", "t", " ", "b", "e", " ", "a", "f", "f", "e", "c", "t", "i", "n", "g", " ">> \o ticker
    \o <<"'", "s", " ", "p", "r", "i", "c", "e", " ", "m", "o", "v", "e", "m", "e", "n", "t">>

\* plan-run/route.ts:158-160  executor.executeStep(step, query) for the two
\* steps of that plan: the branches executeStep takes
fallbackBranches(question) ==
  LET ticker == First(MatchFrom(question, 1, 1, 5))
  IN << BranchOfText(QuoteStepTitle(ticker), QuoteStepDescription(ticker), question),
        BranchOfText(AlsoNewsStepTitle(ticker), AlsoNewsStepDescription(ticker),
                     question) >>

\* ---------------------------------------------------------------- planner
\* planner.ts:128-129  the lengths the title and the description are cut to
TitleMax == 50
DescriptionMax == 200

\* plan-run/route.ts:30  maxSteps = 15 when the body has none
DefaultMaxSteps == 15

\* A string of a plan step: where it comes from (an entry of the model's
\* array at a position, or a template of the fallback planner filled with a
\* ticker) and its length.
Str(src, pos, len, ticker) ==
  [ src |-> src, pos |-> pos, len |-> len, ticker |-> ticker ]

\* String.prototype.slice(0, n)
Slice(str, n) == [str EXCEPT !.len = IF str.len < n THEN str.len ELSE n]

\* A field of an entry of the model's array: absent, or the string it holds.
Absent == [ present |-> FALSE, str |-> Str("none", 0, 0, << >>) ]
Field(which, pos, len) == [ present |-> TRUE, str |-> Str(which, pos, len, << >>) ]

\* step.title && step.description: a missing field and "" are falsy
Truthy(field) == field.present /\ field.str.len > 0

\* planner.ts getFallbackPlan:212-265  the canned steps
QuoteStep(ticker) ==
  [ title |-> Str("Get $ quote", 0, 10 + Len(ticker), ticker),
    description |-> Str("check $ price", 0, 67 + Len(ticker), ticker) ]

AlsoNewsStep(ticker) ==
  [ title |-> Str("Get $ news", 0, 9 + Len(ticker), ticker),
    description |-> Str("news affecting $", 0, 76 + Len(ticker), ticker) ]

NewsStep(ticker) ==
  [ title |-> Str("Get $ news", 0, 9 + Len(ticker), ticker),
    description |-> Str("latest news about $", 0, 55 + Len(ticker), ticker) ]

MarketStep ==
  [ title |-> Str("Get market news", 0, 15, << >>),
    description |-> Str("check market news", 0, 66, << >>) ]

ResearchStep(ticker) ==
  [ title |-> Str("Research $", 0, 9 + Len(ticker), ticker),
    description |-> Str("information about $", 0, 71 + Len(ticker), ticker) ]

SearchStep ==
  [ title |-> Str("Search financial news", 0, 21, << >>),
    description |-> Str("search for financial news", 0, 64, << >>) ]

\* A fallback planner that looks for a ticker alone before it looks for
\* market|today.
getFallbackPlan_ResearchFirst(question) ==
  LET query == toLowerCase(question)
      ticker == First(MatchFrom(question, 1, 1, 5))
      hasTicker == ticker # << >>
  IN IF hasTicker /\ (includes(query, <<"p", "r", "i", "c", "e">>) \/ includes(query, <<"q", "u", "o", "t", "e">>))
     THEN << QuoteStep(ticker), AlsoNewsStep(ticker) >>
     ELSE IF hasTicker /\ includes(query, <<"n", "e", "w", "s">>)
     THEN << NewsStep(ticker) >>
     ELSE IF hasTicker
     THEN << ResearchStep(ticker) >>
     ELSE IF includes(query, <<"m", "a", "r", "k", "e", "t">>) \/ includes(query, <<"t", "o", "d", "a", "y">>)
     THEN << MarketStep >>
     ELSE << SearchStep >>

\* planner.ts getFallbackPlan:192-268
getFallbackPlan(question) ==
  LET query == toLowerCase(question)
      ticker == First(MatchFrom(question, 1, 1, 5))
      hasTicker == ticker # << >>
  IN IF hasTicker /\ (includes(query, <<"p", "r", "i", "c", "e">>) \/ includes(query, <<"q", "u", "o", "t", "e">>))
     THEN << QuoteStep(ticker), AlsoNewsStep(ticker) >>
     ELSE IF hasTicker /\ includes(query, <<"n", "e", "w", "s">>)
     THEN << NewsStep(ticker) >>
     ELSE IF includes(query, <<"m", "a", "r", "k", "e", "t">>) \/ includes(query, <<"t", "o", "d", "a", "y">>)
     THEN << MarketStep >>
     ELSE IF hasTicker
     THEN << ResearchStep(ticker) >>
     ELSE << SearchStep >>

\* planner.ts generatePlan:125-130  the filter and the map over the array.
\* Reading a property of null throws a TypeError.
ValidatedPlan(items) ==
  LET kept == SelectSeq(items, LAMBDA step : Truthy(step.title) /\ Truthy(step.description))
  IN [ p \in DOMAIN kept |->
         [ title |-> Slice(kept[p].title.str, TitleMax),
           description |-> Slice(kept[p].description.str, DescriptionMax) ] ]

\* planner.ts generatePlan:88-150.  maxSteps only goes into the prompt.
generatePlan(question, response) ==
  IF response.kind \in {"fails", "notJSON"} THEN getFallbackPlan(question)
  ELSE IF response.kind = "notArray" THEN << >>
  ELSE IF \E p \in DOMAIN response.items : response.items[p].type = "null"
  THEN getFallbackPlan(question)
  ELSE ValidatedPlan(response.items)

RefineDescriptionMax == 100   \* .slice(0, 100)

\* planner.ts refinePlan:334-339  the filter and the map over the array
RefinedPlan(items) ==
  LET kept == SelectSeq(items, LAMBDA step : Truthy(step.title) /\ Truthy(step.description))
  IN [ p \in DOMAIN kept |->
         [ title |-> Slice(kept[p].title.str, TitleMax),
           description |-> Slice(kept[p].description.str, RefineDescriptionMax) ] ]

\* planner.ts refinePlan:288-292  the context is built before the try
\* block: JSON.stringify(result).slice(0, 200).  JSON.stringify(undefined)
\* is undefined, and reading slice of it throws a TypeError.
ContextThrows(executed) == \E p \in DOMAIN executed : executed[p] = "undefined"

\* planner.ts refinePlan:273-356.  executed holds the kind of the result of
\* every executed step; response is what the completion call and
\* JSON.parse give.  Inside the try block every exception, the TypeError of
\* a null entry among them, ends in the catch block that returns [].
refinePlan(executed, response) ==
  IF ContextThrows(executed) THEN [ thrown |-> TRUE, steps |-> << >> ]
  ELSE IF response.kind \in {"fails", "notJSON", "notArray"}
  THEN [ thrown |-> FALSE, steps |-> << >> ]
  ELSE IF \E p \in DOMAIN response.items : response.items[p].type = "null"
  THEN [ thrown |-> FALSE, steps |-> << >> ]
  ELSE [ thrown |-> FALSE, steps |-> RefinedPlan(response.items) ]

\* ------------------------------------------------------------- summarizer
\* !!x of a summary, an error and the data of a result ([] and {} are truthy)
HasSummary(r) == r.summary = "text"
HasError(r) == r.error # "none"
HasData(r) == r.data \notin {"null", "undefined"}

\* One part of a joined text: the step it is about and what it says
Part(r, text) == [ step |-> r.step, text |-> text ]

\* Summarizer.getFallbackSummary
getFallbackSummary(r) ==
  IF HasError(r) THEN Part(r, "Error executing")
  ELSE IF ~HasData(r) THEN Part(r, "No data found")
  ELSE IF r.provider = "fmp_quote" THEN Part(r, "quote")
  ELSE IF r.provider = "brave_news" THEN Part(r, "Found news articles")
  ELSE IF r.provider = "brave_web" THEN Part(r, "Found web results")
  ELSE IF r.provider = "fmp_chart" THEN Part(r, "Retrieved chart data points")
  ELSE Part(r, "Completed")

\* Summarizer.summarizeResults:269-271  `${title}: ${summary ||
\* JSON.stringify(data).slice(0, 200)}`: JSON.stringify(undefined) is
\* undefined, and reading slice of it throws
CombinedDataThrows(list) ==
  \E p \in DOMAIN list : ~HasSummary(list[p]) /\ list[p].data = "undefined"

\* The per-step texts joined in order
JoinedSummaries(list) ==
  [ p \in DOMAIN list |->
      IF HasSummary(list[p]) THEN Part(list[p], "summary")
      ELSE getFallbackSummary(list[p]) ]

\* A summarizer that lets the failure of the completion call out.
summarizeResults_Rethrow(list, completion) ==
  IF CombinedDataThrows(list) THEN Throw("TypeError")
  ELSE IF completion = "fails" THEN Throw("OpenRouter API error")
  ELSE Ret([ kind |-> "model", parts |-> << >> ])

\* Summarizer.summarizeResults: the model's text, or the joined per-step
\* texts when the completion call fails
summarizeResults(list, completion) ==
  IF CombinedDataThrows(list) THEN Throw("TypeError")
  ELSE IF completion = "fails"
  THEN Ret([ kind |-> "joined", parts |-> JoinedSummaries(list) ])
  ELSE Ret([ kind |-> "model", parts |-> << >> ])

SummaryMin == 20    \* existingSummary.length > 20
SummaryMax == 200   \* existingSummary.length < 200

\* Summarizer.enhanceSummary:336  the summary is already good
IsGoodLength(len) == len > SummaryMin /\ len < SummaryMax

\* Summarizer.enhanceSummary:323-377  the summary returned and the calls of
\* the model made: the summary as it is, the model's text, or the summary
\* again when the call fails
enhanceSummary(len, completion) ==
  IF IsGoodLength(len)
  THEN [ thrown |-> FALSE, text |-> "existing", modelCalls |-> 0 ]
  ELSE IF completion = "fails"
  THEN [ thrown |-> FALSE, text |-> "existing", modelCalls |-> 1 ]
  ELSE [ thrown |-> FALSE, text |-> "model", modelCalls |-> 1 ]

\* Summarizer.summarizeResult:185-251  len is the length of result.summary
\* (0: no summary, which is falsy like "").  Without a summary the model is
\* asked about the data; JSON.stringify(result.data).slice is evaluated
\* before the try block.
summarizeResult(len, data, completion) ==
  IF len > 0 THEN enhanceSummary(len, completion)
  ELSE IF data = "undefined"
  THEN [ thrown |-> TRUE, text |-> "none", modelCalls |-> 0 ]
  ELSE IF completion = "fails"
  THEN [ thrown |-> FALSE, text |-> "fallback", modelCalls |-> 1 ]
  ELSE [ thrown |-> FALSE, text |-> "model", modelCalls |-> 1 ]

\* ------------------------------------------------ the client: handleSubmit
\* An event of the plan-run stream as the client reads it.  idx is the
\* step the event is about, counted from 1 (stepIndex + 1), the number of
\* steps for the plan event, and 0 when the event has no such field.
Event(ev, idx) == [ ev |-> ev, idx |-> idx ]

\* handleSubmit:85-196  what one event does to currentSteps, the array the
\* handler keeps, and to plan, the array it hands to setPlan.  A handler
\* that copies the array ([...currentSteps]) and assigns to a field of an
\* element changes the element of currentSteps as well; stepStart and
\* stepProgress put a new element into the copy and leave currentSteps as
\* it is.
handleEvent(st, e) ==
  LET cur == st.currentSteps
      InPlan == e.idx \in DOMAIN cur
  IN CASE e.ev = "plan" ->
            LET steps == [ k \in 1..e.idx |-> "pending" ]
            IN [ st EXCEPT !.currentSteps = steps, !.plan = steps ]
       [] e.ev = "stepStart" /\ InPlan ->
            [ st EXCEPT !.plan = [ cur EXCEPT ![e.idx] = "running" ] ]
       [] e.ev = "stepProgress" /\ InPlan ->
            [ st EXCEPT !.plan = cur ]
       [] e.ev = "status" /\ e.idx > 0 /\ cur # << >> ->
            LET marked == [ k \in DOMAIN cur |->
                              IF k < e.idx THEN "done"
                              ELSE IF k = e.idx THEN "running" ELSE cur[k] ]
            IN [ st EXCEPT !.currentSteps = marked, !.plan = marked ]
       [] e.ev = "stepComplete" /\ InPlan ->
            LET marked == [ cur EXCEPT ![e.idx] = "done" ]
            IN [ st EXCEPT !.currentSteps = marked, !.plan = marked ]
       [] e.ev = "stepError" /\ InPlan ->
            LET marked == [ cur EXCEPT ![e.idx] = "failed" ]
            IN [ st EXCEPT !.currentSteps = marked, !.plan = marked ]
       [] e.ev \in {"executionResults", "summary"} ->
            [ st EXCEPT !.tempResults = @ + e.idx ]
       [] e.ev = "done" ->
            [ st EXCEPT !.plan = [ k \in DOMAIN cur |-> "done" ] ]
       [] OTHER -> st

\* handleSubmit:61-83  before the first event: setPlan([]), tempResults = []
ClientStart ==
  [ done |-> FALSE, pos |-> 0, currentSteps |-> << >>, plan |-> << >>,
    tempResults |-> 0, answerSent |-> FALSE ]

\* plan-run/route.ts:112-211  the events of step k with hb heartbeats:
\* stepStart, the stepProgress events of its interval, stepComplete.
\* (stepError is written only after a write has failed, so it never
\* reaches the client.)
StepStream(k, hb) ==
  << Event("stepStart", k) >> \o [ t \in 1..hb |-> Event("stepProgress", k) ]
    \o << Event("stepComplete", k) >>

RECURSIVE StepsStream(_, _)
StepsStream(n, hbs) ==
  IF n = 0 THEN << >>
  ELSE StepsStream(n - 1, hbs) \o StepStream(n, hbs[n])

\* plan-run/route.ts:66-265  the events of a run that ends with done; the
\* status events carry a message and no currentStep, the summary event
\* carries no results
DoneStream(n, hbs) ==
  << Event("status", 0), Event("plan", n) >> \o StepsStream(n, hbs)
    \o << Event("executionResults", n), Event("status", 0),
          Event("summary", 0), Event("done", 0) >>

\* plan-run/route.ts:104, 266-270  the events of a run whose executor
\* cannot be built
ErrorStream(n) == << Event("status", 0), Event("plan", n), Event("error", 0) >>

\* answer/route.ts:70-157  the events of the answer stream: status, one
\* delta for each chunk of the answer, and then done, or error when the
\* generator threw
AnswerStream(n, end) ==
  << Event("status", 0) >> \o [ k \in 1..n |-> Event("delta", 0) ]
    \o << Event(end, 0) >>

\* handleSubmit:222-237  the /answer request has been sent: nothing of the
\* answer yet, no assistant message of the turn, isLoading true
AnswerLoopStart ==
  [ done |-> FALSE, pos |-> 0, fullAnswer |-> 0, messages |-> << >>,
    isLoading |-> TRUE ]

\* handleSubmit:228-236  one event of the answer stream: delta adds to
\* fullAnswer, done appends the assistant message; no other event has a
\* branch
handleAnswerEvent(st, e) ==
  CASE e.ev = "delta" -> [ st EXCEPT !.fullAnswer = @ + 1 ]
    [] e.ev = "done" -> [ st EXCEPT !.messages = Append(@, "answer") ]
    [] OTHER -> st

\* handleSubmit:238-246  how the answer phase ends: the catch block appends
\* the error message when something was thrown, and the finally block sets
\* isLoading to false
endOfSubmit(st, thrown) ==
  [ st EXCEPT !.done = TRUE,
              !.messages = IF thrown THEN Append(@, "error") ELSE @,
              !.isLoading = FALSE ]

\* ------------------------------------------------- the completion stream
\* A line of the completion stream, as streamComplete tells them apart:
\* "content" is a data line whose JSON has a text increment, "noContent"
\* one whose JSON has none, "malformed" one that JSON.parse rejects, "done"
\* is data: [DONE], "other" is a blank line or one that is no data line.
StreamLineKinds == {"content", "noContent", "malformed", "done", "other"}

StreamLine(kind, text) == [ kind |-> kind, text |-> text ]

\* openrouter.ts streamComplete:203-261  the lines read from the body, in
\* order: the increments yielded after `yielded`, and how the generator
\* ends once the body does (readEnd: "eof", or "readError" when
\* reader.read() rejects).  JSON.parse is inside a try block whose catch
\* block logs the error, and the loop goes on with the next line.
RECURSIVE streamLines(_, _, _)
streamLines(lines, readEnd, yielded) ==
  IF lines = << >>
  THEN [ yielded |-> yielded, thrown |-> readEnd = "readError" ]
  ELSE LET line == Head(lines)
       IN CASE line.kind = "done" -> [ yielded |-> yielded, thrown |-> FALSE ]
            [] line.kind = "content" ->
                 streamLines(Tail(lines), readEnd, Append(yielded, line.text))
            [] OTHER -> streamLines(Tail(lines), readEnd, yielded)

\* openrouter.ts streamComplete:170-270  the request, then the body
streamComplete(upstream) ==
  IF ~upstream.httpOk
  THEN [ yielded |-> << >>, thrown |-> TRUE ]
  ELSE streamLines(upstream.lines, upstream.readEnd, << >>)

\* Summarizer.generateFinalAnswer:680-700  loggedStream: every chunk of the
\* stream is yielded, an error is logged and thrown again
generateFinalAnswer(upstream) ==
  LET stream == streamComplete(upstream)
  IN [ yielded |-> stream.yielded, thrown |-> stream.thrown ]

\* --------------------------------------------------------- fetchWithRetry
DefaultRetryDelay == 500   \* retryDelay = 500

\* What one fetch does: a response with its status, a network error, or
\* no answer before the timer aborts it
FetchOutcomes ==
  { [ kind |-> "response", status |-> st ] : st \in {200, 404, 500} }
    \cup { [ kind |-> "network", status |-> 0 ],
           [ kind |-> "abort", status |-> 0 ] }

\* fetchWithTimeout: the response, or the error thrown; an abort becomes
\* the "Request timeout" error
fetchWithTimeout(o) ==
  CASE o.kind = "response" -> [ thrown |-> FALSE, status |-> o.status, error |-> "none" ]
    [] o.kind = "abort" -> [ thrown |-> TRUE, status |-> 0, error |-> "timeout" ]
    [] OTHER -> [ thrown |-> TRUE, status |-> 0, error |-> "network" ]

\* Response.ok
ResponseOk(status) == status >= 200 /\ status <= 299

\* A test that takes the client errors for server errors too.
IsServerError_From400(status) == status >= 400

\* fetchWithRetry:430, 437  response.status >= 500
IsServerError(status) == status >= 500

\* The loop of fetchWithRetry before its first turn
FetchStart ==
  [ done |-> FALSE, attempt |-> 0, fetches |-> << >>, waits |-> << >> ]

\* fetchWithRetry:409-454  one turn of the loop, attempt st.attempt, in which
\* the fetch does o: the wait before a retry, the fetch, and then the return,
\* the throw or the next turn
fetchWithRetryTurn(st, retries, retryDelay, o) ==
  LET attempt == st.attempt
      waited == IF attempt > 0 THEN Append(st.waits, retryDelay * attempt)
                ELSE st.waits
      r == fetchWithTimeout(o)
      seen == [ fetches |-> Append(st.fetches, o), waits |-> waited ]
      Return(status) ==
        [ done |-> TRUE, attempt |-> attempt, fetches |-> seen.fetches,
          waits |-> seen.waits, thrown |-> FALSE, status |-> status ]
      ThrowLast ==
        [ done |-> TRUE, attempt |-> attempt, fetches |-> seen.fetches,
          waits |-> seen.waits, thrown |-> TRUE, status |-> 0 ]
      Continue ==
        [ done |-> FALSE, attempt |-> attempt + 1, fetches |-> seen.fetches,
          waits |-> seen.waits ]
  IN IF r.thrown
     THEN IF attempt = retries THEN ThrowLast ELSE Continue
     ELSE IF ResponseOk(r.status) THEN Return(r.status)
     ELSE IF attempt = retries
     THEN IF IsServerError(r.status) THEN ThrowLast ELSE Return(r.status)
     ELSE IF IsServerError(r.status) THEN Continue
     ELSE Return(r.status)

\* ------------------------------------------------------------ SSEConsumer
NewLine == "\n"

\* String.prototype.split('\n'): the pieces between the line feeds
RECURSIVE splitLines(_)
splitLines(text) ==
  IF \E p \in DOMAIN text : text[p] = NewLine
  THEN LET p == CHOOSE q \in DOMAIN text :
                  text[q] = NewLine /\ \A o \in 1..(q - 1) : text[o] # NewLine
       IN << SubSeq(text, 1, p - 1) >> \o splitLines(SubSeq(text, p + 1, Len(text)))
  ELSE << text >>

\* String.prototype.trim
IsSpace(c) == c \in {" ", NewLine}

RECURSIVE trim(_)
trim(text) ==
  IF text = << >> THEN text
  ELSE IF IsSpace(text[1]) THEN trim(Tail(text))
  ELSE IF IsSpace(text[Len(text)]) THEN trim(SubSeq(text, 1, Len(text) - 1))
  ELSE text

\* String.prototype.startsWith
startsWith(text, prefix) ==
  Len(text) >= Len(prefix) /\ SubSeq(text, 1, Len(prefix)) = prefix

\* Array.prototype.indexOf, counted from 1 (the element is in the array)
indexOf(list, x) ==
  CHOOSE p \in DOMAIN list : list[p] = x /\ \A o \in 1..(p - 1) : list[o] # x

\* Array.prototype.splice(p, 1)
RemoveAt(list, p) == SubSeq(list, 1, p - 1) \o SubSeq(list, p + 1, Len(list))

\* SSEConsumer [Symbol.asyncIterator]:1122-1142  the loop over the complete
\* lines of the buffer, from the line at position k; the events it yields.
\* The data line of an event is looked up after the first line equal to the
\* event line and is removed from the array that is being iterated.
RECURSIVE ProcessLines(_, _)
ProcessLines(lines, k) ==
  IF k > Len(lines) THEN << >>
  ELSE LET line == lines[k]
           trimmedLine == trim(line)
       IN IF trimmedLine = << >> \/ startsWith(trimmedLine, <<":">>)
          THEN ProcessLines(lines, k + 1)
          ELSE IF startsWith(trimmedLine, <<"e", "v", "e", "n", "t", ":">>)
          THEN LET eventType == trim(SubSeq(trimmedLine, 7, Len(trimmedLine)))
                   nextIndex == indexOf(lines, line) + 1
               IN IF nextIndex <= Len(lines)
                     /\ startsWith(trim(lines[nextIndex]), <<"d", "a", "t", "a", ":">>)
                  THEN LET dataLine == trim(lines[nextIndex])
                           data == trim(SubSeq(dataLine, 6, Len(dataLine)))
                       IN << [ event |-> eventType, data |-> data ] >>
                            \o ProcessLines(RemoveAt(lines, nextIndex), k + 1)
                  ELSE ProcessLines(lines, k + 1)
          ELSE IF startsWith(trimmedLine, <<"d", "a", "t", "a", ":">>)
          THEN << [ event |-> <<"m", "e", "s", "s", "a", "g", "e">>,
                    data |-> trim(SubSeq(trimmedLine, 6, Len(trimmedLine))) ] >>
                 \o ProcessLines(lines, k + 1)
          ELSE ProcessLines(lines, k + 1)

\* SSEConsumer [Symbol.asyncIterator]:1114-1143  the reads: every chunk is
\* added to the buffer, the complete lines are processed and the last,
\* incomplete one stays in the buffer.  What is yielded over all the chunks.
RECURSIVE Consume(_, _)
Consume(buffer, chunks) ==
  IF chunks = << >> THEN << >>
  ELSE LET lines == splitLines(buffer \o Head(chunks))
       IN ProcessLines(SubSeq(lines, 1, Len(lines) - 1), 1)
            \o Consume(lines[Len(lines)], Tail(chunks))

\* plan-run/route.ts:60  `event: ${event}\ndata: ${JSON.stringify(data)}\n\n`
SSEMessage(event, data) ==
  <<"e", "v", "e", "n", "t", ":", " ">> \o event \o << NewLine >> \o <<"d", "a", "t", "a", ":", " ">> \o data
    \o << NewLine, NewLine >>

\* openrouter.ts streamComplete:233-234  JSON.parse(data) and
\* parsed.choices?.[0]?.delta?.content.  The JSON of an increment is written
\* {c} for the one-character content c and {} for a delta without content;
\* any other text is not JSON.
parseContent(data) ==
  IF data = <<"{", "}">> THEN [ ok |-> TRUE, content |-> << >> ]
  ELSE IF Len(data) = 3 /\ data[1] = "{" /\ data[3] = "}"
  THEN [ ok |-> TRUE, content |-> << data[2] >> ]
  ELSE [ ok |-> FALSE, content |-> << >> ]

\* openrouter.ts streamComplete:212-258  the for-of loop over the complete
\* lines of one read, from line k on: the increments yielded, and whether
\* the generator returned at data: [DONE]
RECURSIVE streamProcessLines(_, _)
streamProcessLines(lines, k) ==
  IF k > Len(lines) THEN [ yielded |-> << >>, returned |-> FALSE ]
  ELSE LET line == lines[k]
           rest == streamProcessLines(lines, k + 1)
       IN IF trim(line) = << >> THEN rest
          ELSE IF startsWith(line, <<"d", "a", "t", "a", ":", " ">>)
          THEN LET data == SubSeq(line, 7, Len(line))
               IN IF data = <<"[", "D", "O", "N", "E", "]">>
                  THEN [ yielded |-> << >>, returned |-> TRUE ]
                  ELSE IF parseContent(data).ok /\ parseContent(data).content # << >>
                  THEN [ yielded |-> << parseContent(data).content >> \o rest.yielded,
                         returned |-> rest.returned ]
                  ELSE rest
          ELSE rest

\* A read loop that forgets the incomplete line at the end of a read.
streamRemainder_Dropped(lines) == << >>

\* openrouter.ts streamComplete:210  buffer = lines.pop() || ''
streamRemainder(lines) == lines[Len(lines)]

\* openrouter.ts streamComplete:203-258  the reads: every chunk is added to
\* the buffer, the complete lines are processed and the incomplete one stays
\* in the buffer.  What is yielded over all the chunks.
RECURSIVE streamChunks(_, _)
streamChunks(buffer, chunks) ==
  IF chunks = << >> THEN << >>
  ELSE LET lines == splitLines(buffer \o Head(chunks))
           read == streamProcessLines(SubSeq(lines, 1, Len(lines) - 1), 1)
       IN IF read.returned THEN read.yielded
          ELSE read.yielded \o streamChunks(streamRemainder(lines), Tail(chunks))

\* ------------------------------------------- provider calls of a branch
\* A quote step that asks FMP although Polygon had the quote.
quoteCalls_FmpAlways(env) ==
  LET polygon == IF PolygonIsAvailable(env) THEN << "polygon.getQuote" >> ELSE << >>
      fmp == IF env.needsFullQuote THEN << "fmp.getQuote" >>
             ELSE << "fmp.getQuoteLight" >>
      quote == IF env.needsFullQuote THEN FMPGetQuote(env)
               ELSE FMPGetQuoteLight(env)
  IN IF quote # "null" \/ (PolygonIsAvailable(env) /\ PolygonGetQuote(env) # "null")
     THEN polygon \o fmp
     ELSE polygon \o fmp \o << "brave.searchWeb" >>

\* executor.ts executeQuoteStep:284-339  the provider methods it calls, in
\* order.  The FMP method is called whether or not FMP has a key (it
\* returns null without one).
quoteCalls(env) ==
  LET polygon == IF PolygonIsAvailable(env) THEN << "polygon.getQuote" >> ELSE << >>
      fmp == IF env.needsFullQuote THEN << "fmp.getQuote" >>
             ELSE << "fmp.getQuoteLight" >>
      quote == IF env.needsFullQuote THEN FMPGetQuote(env)
               ELSE FMPGetQuoteLight(env)
  IN IF PolygonIsAvailable(env) /\ PolygonGetQuote(env) # "null" THEN polygon
     ELSE IF quote # "null" THEN polygon \o fmp
     ELSE polygon \o fmp \o << "brave.searchWeb" >>

\* executor.ts executeMarketMoversStep:225-229, 265  the lists it asks FMP
\* for, and the news search of its catch block
moversCalls(env) ==
  LET fetched == MoversFetched(env)
      lists == (IF "gainers" \in fetched THEN << "fmp.getTopGainers" >> ELSE << >>)
               \o (IF "losers" \in fetched THEN << "fmp.getTopLosers" >> ELSE << >>)
               \o (IF "actives" \in fetched THEN << "fmp.getMostActives" >> ELSE << >>)
  IN IF FMPGetMovers(env) = "malformed" THEN lists \o << "brave.searchNews" >>
     ELSE lists

\* A chart step that makes the web search whatever the candles are.
chartCalls_WebAlways(env) == << "fmp.getIntradayChart", "brave.searchWeb" >>

\* executor.ts executeChartStep:370-382  the provider methods it calls, in
\* order.  getIntradayChart is called whether or not FMP has a key (it
\* returns [] without one).
chartCalls(env) ==
  IF FMPGetIntradayChart(env) = "empty"
  THEN << "fmp.getIntradayChart", "brave.searchWeb" >>
  ELSE << "fmp.getIntradayChart" >>

\* ------------------------------------------------ inputs of the functions
MaxEntries == 3   \* most entries in the array the model returns
MaxWords == 2     \* most words in a question

\* What an entry of the model's array can be: null, a number, or an object
\* whose title and description are missing, empty, short or too long.
EntryKinds ==
  { "null", "number", "ok", "long", "noTitle", "emptyTitle",
    "noDescription", "emptyDescription" }

MakeEntry(kind, pos) ==
  [ type |-> IF kind \in {"null", "number"} THEN kind ELSE "object",
    title |->
      CASE kind \in {"null", "number", "noTitle"} -> Absent
        [] kind = "emptyTitle" -> Field("title", pos, 0)
        [] kind = "long" -> Field("title", pos, TitleMax + 1)
        [] OTHER -> Field("title", pos, 12),
    description |->
      CASE kind \in {"null", "number", "noDescription"} -> Absent
        [] kind = "emptyDescription" -> Field("description", pos, 0)
        [] kind = "long" -> Field("description", pos, DescriptionMax + 1)
        [] OTHER -> Field("description", pos, 80) ]

\* What openRouterService.complete and JSON.parse can give generatePlan
Response(kind, kinds) ==
  [ kind |-> kind, items |-> [ p \in DOMAIN kinds |-> MakeEntry(kinds[p], p) ] ]

ArrayResponses ==
  { Response("array", kinds) :
      kinds \in UNION { [1..n -> EntryKinds] : n \in 0..MaxEntries } }

FailedResponses ==
  { Response(kind, << >>) : kind \in {"fails", "notJSON", "notArray"} }

\* The words the questions are made of
QuestionWords ==
  { <<"N", "V", "D", "A">>,
    <<"A", "I">>,
    <<"I">>,
    <<"p", "r", "i", "c", "e">>,
    <<"n", "e", "w", "s">>,
    <<"t", "o", "d", "a", "y">>,
    <<"s", "t", "o", "c", "k">>,
    <<"W", "h", "a", "t", "'", "s">>,
    <<"N", "V", "D", "A", "'", "s">> }

RECURSIVE JoinAll(_)
JoinAll(words) ==
  IF Len(words) = 1 THEN words[1]
  ELSE Join(JoinAll(SubSeq(words, 1, Len(words) - 1)), words[Len(words)])

Questions ==
  { JoinAll(words) :
      words \in UNION { [1..n -> QuestionWords] : n \in 1..MaxWords } }

DefaultQuestion == Join(<<"N", "V", "D", "A">>, <<"p", "r", "i", "c", "e">>)

\* The calls of generatePlan: every array with one question, and every
\* question with the responses that are no array.
PlanCalls ==
  { [ fn |-> "generatePlan", question |-> q, response |-> r, maxSteps |-> m ] :
      q \in {DefaultQuestion}, r \in ArrayResponses, m \in {1, DefaultMaxSteps} }
  \cup
  { [ fn |-> "generatePlan", question |-> q, response |-> r, maxSteps |-> m ] :
      q \in Questions, r \in FailedResponses, m \in {1, DefaultMaxSteps} }

\* The words the step texts are made of
StepWords ==
  { <<"N", "V", "D", "A">>,
    <<"M", "S", "F", "T">>,
    <<"A", "I">>,
    <<"N", "V", "D", "A", "'", "s">>,
    <<"A", "B", "C", "D", "E", "F", "G">>,
    <<"T", "s", "l", "a">>,
    <<"p", "r", "i", "c", "e">>,
    <<"n", "e", "w", "s">>,
    <<"c", "h", "a", "r", "t">>,
    <<"g", "a", "i", "n", "e", "r", "s">>,
    <<"a", "b", "o", "u", "t">>,
    <<"s", "t", "o", "c", "k">> }

\* The calls of executeStep whose routing is checked: a title and a
\* description of one word each, and a context of one word or none.
\* planner.ts:240-241  the text of the fallback planner's market step
MarketStepTitle == <<"G", "e", "t", " ", "m", "a", "r", "k", "e", "t", " ", "n", "e", "w", "s">>

MarketStepDescription ==
  <<"L", "e", "t", " ", "m", "e", " ", "c", "h", "e", "c", "k", " ", "t", "o", "d", "a", "y", "'", "s", " ", "m", "a", "r", "k", "e", "t", " ", "n", "e", "w", "s", " ", "a", "n", "d", " ", "s", "e", "e", " ", "w", "h", "a", "t", "'", "s", " ", "m", "o", "v", "i", "n", "g", " ", "t", "h", "e", " ", "m", "a", "r", "k", "e", "t", "s">>

\* A question without a ticker, as the route passes it on as the context
GeneralQuery == <<"t", "e", "l", "l", " ", "m", "e", " ", "a", "b", "o", "u", "t", " ", "m", "a", "r", "k", "e", "t", "s">>

RouteCalls ==
  { [ fn |-> "executeStep", title |-> t, description |-> d, context |-> c,
      env |-> DefaultEnv ] :
      t \in StepWords \cup {MarketStepTitle},
      d \in StepWords \cup {MarketStepDescription},
      c \in StepWords \cup { << >>, GeneralQuery } }

\* The questions with a ticker and price|quote, for which the fallback
\* planner returns the quote step and the news step
FallbackRouteCalls ==
  { [ fn |-> "executeFallbackPlan", question |-> q ] :
      q \in { x \in Questions : Len(getFallbackPlan(x)) = 2 } }

GeneralSearchCalls ==
  { [ fn |-> "executeGeneralSearchStep", env |-> e ] :
      e \in { x \in EnvsFor("generalSearch") : Canonical("generalSearch", x) } }

QuoteCalls ==
  { [ fn |-> "executeQuoteStep", env |-> e ] :
      e \in { x \in EnvsFor("quote") : Canonical("quote", x) } }

ChartCalls ==
  { [ fn |-> "executeChartStep", env |-> e ] :
      e \in { x \in EnvsFor("chart") : Canonical("chart", x) } }

\* The words the texts of the movers steps are made of
MoverWords ==
  { <<"m", "o", "v", "e", "r", "s">>,
    <<"g", "a", "i", "n", "e", "r", "s">>,
    <<"l", "o", "s", "e", "r", "s">>,
    <<"a", "c", "t", "i", "v", "e">>,
    <<"b", "e", "s", "t">>,
    <<"w", "o", "r", "s", "t">>,
    <<"v", "o", "l", "u", "m", "e">>,
    <<"t", "o", "p">>,
    <<"d", "o", "w", "n">> }

MoverQueries ==
  MoverWords \cup { Join(a, b) : a \in MoverWords, b \in MoverWords }

\* The calls of executeMarketMoversStep: a lower-cased text and the provider
\* answers.
MoversCalls ==
  { [ fn |-> "executeMarketMoversStep", query |-> q, env |-> e ] :
      q \in MoverQueries,
      e \in { x \in EnvsFor("movers") :
                /\ Canonical("movers", x)
                /\ ~x.wantsGainers /\ ~x.wantsLosers /\ ~x.wantsActives } }

\* The results executeStep can give the step at position p of a plan
ResultsOfLength(n) ==
  { [ p \in 1..n |-> [rs[p] EXCEPT !.step = p] ] :
      rs \in [1..n -> { o.result : o \in StepOutcomes }] }

\* The calls of summarizeResults: the results of a plan run and what the
\* completion call does
SummarizeCalls ==
  { [ fn |-> "summarizeResults", results |-> rs, completion |-> c ] :
      rs \in UNION { ResultsOfLength(n) : n \in 0..MaxSteps },
      c \in {"text", "fails"} }

MaxMessages == 2   \* most messages in a response body

\* The response bodies: messages as the routes write them
RECURSIVE Concat(_)
Concat(texts) == IF texts = << >> THEN << >> ELSE Head(texts) \o Concat(Tail(texts))

SSEBodies ==
  { Concat([ p \in DOMAIN ms |-> SSEMessage(ms[p], <<"1">>) ]) :
      ms \in UNION { [1..n -> { <<"a">>, <<"b">> }] : n \in 1..MaxMessages } }

\* The calls of the consumer: a body and the place where the reads cut it
\* in two (0: it arrives in one read)
ConsumerCalls ==
  UNION { { [ fn |-> "SSEConsumer", body |-> b, cut |-> c ] :
              c \in 0..(Len(b) - 1) } : b \in SSEBodies }

MaxStreamMessages == 2   \* most messages in the body of a chunked stream

\* The messages of a completion stream: an increment a or b, the end
\* marker, and a comment line
StreamMessageKinds == {"a", "b", "done", "comment"}

\* The text of a message: its line and the blank line after it
StreamMessage(kind) ==
  (CASE kind = "a" -> <<"d", "a", "t", "a", ":", " ", "{", "a", "}">>
     [] kind = "b" -> <<"d", "a", "t", "a", ":", " ", "{", "b", "}">>
     [] kind = "done" -> <<"d", "a", "t", "a", ":", " ", "[", "D", "O", "N", "E", "]">>
     [] OTHER -> <<":", " ", "c">>) \o << NewLine, NewLine >>

StreamBody(kinds) == Concat([ p \in DOMAIN kinds |-> StreamMessage(kinds[p]) ])

\* The calls of streamComplete on a body whose reads are cut: after cut
\* characters (0: one read), and again mid characters later (0: two reads)
StreamChunkCalls ==
  UNION { { [ fn |-> "streamCompleteChunks", kinds |-> ks, cut |-> c, mid |-> m ] :
              c \in 0..(Len(StreamBody(ks)) - 1), m \in {0, 1} } :
          ks \in UNION { [1..n -> StreamMessageKinds] : n \in 1..MaxStreamMessages } }

MaxRetries == 2   \* the retries option: 0..MaxRetries (2 by default)

\* The calls of fetchWithRetry
FetchCalls ==
  { [ fn |-> "fetchWithRetry", retries |-> r, retryDelay |-> DefaultRetryDelay ] :
      r \in 0..MaxRetries }

MaxLines == 3   \* most lines in the body of a completion stream

\* The lines of a completion stream
StreamLines ==
  { StreamLine("content", "a"), StreamLine("content", "b"),
    StreamLine("noContent", ""), StreamLine("malformed", ""),
    StreamLine("done", ""), StreamLine("other", "") }

\* The completion streams: the request refused, or a body of lines that
\* ends or whose read fails
Upstreams ==
  { [ httpOk |-> FALSE, lines |-> << >>, readEnd |-> "eof" ] }
    \cup { [ httpOk |-> TRUE, lines |-> ls, readEnd |-> e ] :
             ls \in UNION { [1..n -> StreamLines] : n \in 0..MaxLines },
             e \in {"eof", "readError"} }

AnswerCalls == { [ fn |-> "generateFinalAnswer", upstream |-> u ] : u \in Upstreams }

RECURSIVE SumTo(_, _)
SumTo(f, n) == IF n = 0 THEN 0 ELSE f[n] + SumTo(f, n - 1)

\* The streams plan-run can send in full
FullStreams ==
  UNION { { DoneStream(n, hbs) :
              hbs \in { f \in [1..n -> 0..MaxTicks] : SumTo(f, n) <= MaxTicks } }
            \cup { ErrorStream(n) } : n \in 0..MaxSteps }

\* ... and what the client reads of them: all of it, or a part when the
\* stream closes early; the read ends ("eof") or fails ("readError")
ClientCalls ==
  { [ fn |-> "handleSubmit", httpOk |-> FALSE, stream |-> << >>, readEnd |-> "eof" ] }
    \cup UNION { { [ fn |-> "handleSubmit", httpOk |-> TRUE,
                     stream |-> SubSeq(full, 1, n), readEnd |-> e ] :
                     n \in 0..Len(full), e \in {"eof", "readError"} } :
                 full \in FullStreams }

\* The answer phase of handleSubmit: the /answer response, and what the
\* client reads of its stream
AnswerPhaseCalls ==
  { [ fn |-> "handleSubmitAnswer", httpOk |-> FALSE, stream |-> << >>,
      readEnd |-> "eof" ] }
    \cup UNION { { [ fn |-> "handleSubmitAnswer", httpOk |-> TRUE,
                     stream |-> SubSeq(AnswerStream(n, end), 1, k),
                     readEnd |-> e ] :
                     k \in 0..(n + 2), e \in {"eof", "readError"} } :
                 n \in 0..MaxChunks, end \in {"done", "error"} }

\* Two calls of executeStep with the same step, context and provider
\* answers; what is left open is the order in which parallel provider calls
\* settle
TwiceCalls ==
  { [ fn |-> "executeStepTwice", input |-> x ] :
      x \in { y \in ExecInputs : y.env.raceFirst = "news" } }

\* What refinePlan is given as the result of an executed step
ResultKinds == {"object", "null", "undefined"}

\* The calls of refinePlan: every short array after one executed step, and
\* every list of executed steps with the responses that are no array
RefineCalls ==
  { [ fn |-> "refinePlan", executed |-> << "object" >>, response |-> r ] :
      r \in { a \in ArrayResponses : Len(a.items) <= MaxSteps } }
  \cup
  { [ fn |-> "refinePlan", executed |-> e, response |-> r ] :
      e \in UNION { [1..n -> ResultKinds] : n \in 0..MaxSteps },
      r \in FailedResponses \cup { Response("array", << >>) } }

\* The lengths of the summary of a result: none, and the lengths around the
\* two ends of the band
SummaryLengths ==
  { 0, 1, SummaryMin - 1, SummaryMin, SummaryMin + 1,
    SummaryMax - 1, SummaryMax, SummaryMax + 1 }

SummarizeResultCalls ==
  { [ fn |-> "summarizeResult", len |-> n, data |-> d, completion |-> c ] :
      n \in SummaryLengths, d \in {"list", "emptyList", "object", "null"},
      c \in {"text", "fails"} }

NoCall == [ fn |-> "none" ]
NoOut == [ done |-> FALSE ]

\* ------------------------------------------------------------- the state
VARIABLES
  route,        \* which program runs: "none", "plan-run", "answer", "executeSteps"
  pc,           \* where the program is
  req,          \* the request body and the server's Brave key
  response,     \* the HTTP response returned: "none", "400", "500", "sse"
  ops,          \* the operations made on the stream writer, in order
  sinkOpen,     \* FALSE once the client has disconnected
  planLen,      \* planSteps.length / steps.length
  i,            \* the loop index, from 1
  timers,       \* the step indexes whose heartbeat interval is active
  ticks,        \* heartbeat callbacks that have run
  results,      \* executionResults / results
  calls,        \* the agents constructed or called so far
  pendingThrow, \* an exception left the catch block
  unhandled,    \* promise rejections nobody handles
  lastCall,     \* the last executeStep call of executeSteps: its branch, and
                \* whether a provider call threw inside it
  yielded,      \* the chunks the answer generator has yielded
  genState,     \* the answer generator: "none", "open", "finished", "failed"
  fnArg,        \* the call of a function checked on its own: its arguments
  fnOut         \* ... and what it returned

vars == << route, pc, req, response, ops, sinkOpen, planLen, i, timers, ticks,
           results, calls, pendingThrow, unhandled, lastCall, yielded, genState,
           fnArg, fnOut >>

NoRequest ==
  [ kind |-> "none", query |-> "absent", openrouterKey |-> "absent",
    executionResults |-> "absent", braveKey |-> FALSE ]

\* No request has arrived yet.
Idle ==
  /\ route = "none"
  /\ pc = "idle"
  /\ req = NoRequest
  /\ response = "none"
  /\ ops = << >>
  /\ sinkOpen = TRUE
  /\ planLen = 0
  /\ i = 1
  /\ timers = {}
  /\ ticks = 0
  /\ results = << >>
  /\ calls = {}
  /\ pendingThrow = FALSE
  /\ unhandled = 0
  /\ lastCall = CallOf(DefaultInput)
  /\ yielded = << >>
  /\ genState = "none"

Init == Idle /\ fnArg = NoCall /\ fnOut = NoOut

\* One operation on the writer.  A write is accepted iff the sink is open.
Op(ev, idx, aux) == [ev |-> ev, idx |-> idx, aux |-> aux, ok |-> sinkOpen]

\* ------------------------------------------------ plan-run: the handler
\* A body is "invalid" when the handler cannot read it: req.json() rejects,
\* the body is null, or conversationHistory is null (its length is read
\* before the validation).  Such a request ends in the handler's outer
\* catch block with status 500.
PlanRunBodies ==
  { [ kind |-> k, query |-> q, openrouterKey |-> o,
      executionResults |-> "absent", braveKey |-> b ] :
      k \in {"object", "invalid"}, q \in {"absent", "empty", "text"},
      o \in {"absent", "empty", "text"}, b \in BOOLEAN }

\* !x of a string field: true when it is absent or ""
Falsy(field) == field \in {"absent", "empty"}

\* route.ts:39  if (!query || !openrouterKey)
PlanRunMissing(b) == Falsy(b.query) \/ Falsy(b.openrouterKey)

\* route.ts:28-63, 277-297: parse the body, validate it, open the stream
PlanRunPOST ==
  /\ pc = "idle"
  /\ \E b \in { x \in PlanRunBodies : x.kind = "invalid" =>
                  /\ x.query = "absent" /\ x.openrouterKey = "absent" } :
       /\ route' = "plan-run"
       /\ req' = b
       /\ IF b.kind = "invalid"
          THEN response' = "500" /\ pc' = "responded"
          ELSE IF PlanRunMissing(b)
          THEN response' = "400" /\ pc' = "responded"
          ELSE response' = "sse" /\ pc' = "pr_status"
  /\ UNCHANGED << fnArg, fnOut, ops, sinkOpen, planLen, i, timers, ticks, results, calls,
                  pendingThrow, unhandled, lastCall, yielded, genState >>

\* route.ts:70  the first status event
PlanRunStatus ==
  /\ pc = "pr_status"
  /\ ops' = Append(ops, Op("status", 0, 0))
  /\ pc' = IF sinkOpen THEN "pr_plan" ELSE "pr_catch"
  /\ UNCHANGED << fnArg, fnOut, route, req, response, sinkOpen, planLen, i, timers, ticks,
                  results, calls, pendingThrow, unhandled, lastCall, yielded,
                  genState >>

\* route.ts:74-85  generatePlan (it never throws) and the plan event
PlanRunPlan ==
  /\ pc = "pr_plan"
  /\ \E n \in 0..MaxSteps : planLen' = n
  /\ calls' = calls \cup {"planner"}
  /\ ops' = Append(ops, Op("plan", planLen', 0))
  /\ pc' = IF sinkOpen THEN "pr_executor" ELSE "pr_catch"
  /\ UNCHANGED << fnArg, fnOut, route, req, response, sinkOpen, i, timers, ticks, results,
                  pendingThrow, unhandled, lastCall, yielded, genState >>

\* route.ts:104  new Executor(...): the BraveSearchService constructor
\* throws when there is no Brave key (brave-search constructor)
PlanRunExecutor ==
  /\ pc = "pr_executor"
  /\ calls' = calls \cup {"executor"}
  /\ pc' = IF req.braveKey THEN "pr_loop" ELSE "pr_catch"
  /\ UNCHANGED << fnArg, fnOut, route, req, response, ops, sinkOpen, planLen, i, timers,
                  ticks, results, pendingThrow, unhandled, lastCall, yielded,
                  genState >>

\* A loop that starts the next step while executeStep of the current one is
\* still awaited.
PlanRunStepStart_NoWait ==
  /\ pc \in {"pr_loop", "pr_exec"}
  /\ i' = IF pc = "pr_exec" THEN i + 1 ELSE i
  /\ i' <= planLen
  /\ ops' = Append(ops, Op("stepStart", i', planLen))
  /\ pc' = IF sinkOpen THEN "pr_arm" ELSE "pr_catch"
  /\ UNCHANGED << fnArg, fnOut, route, req, response, sinkOpen, planLen, timers, ticks,
                  results, calls, pendingThrow, unhandled, lastCall, yielded,
                  genState >>

\* route.ts:112-130  the loop test and the stepStart event
PlanRunStepStart ==
  /\ pc = "pr_loop"
  /\ i <= planLen
  /\ ops' = Append(ops, Op("stepStart", i, planLen))
  /\ pc' = IF sinkOpen THEN "pr_arm" ELSE "pr_catch"
  /\ UNCHANGED << fnArg, fnOut, route, req, response, sinkOpen, planLen, i, timers, ticks,
                  results, calls, pendingThrow, unhandled, lastCall, yielded,
                  genState >>

\* route.ts:136-159  setInterval, then the call of executeStep
PlanRunArm ==
  /\ pc = "pr_arm"
  /\ timers' = timers \cup {i}
  /\ pc' = "pr_exec"
  /\ UNCHANGED << fnArg, fnOut, route, req, response, ops, sinkOpen, planLen, i, ticks, results,
                  calls, pendingThrow, unhandled, lastCall, yielded, genState >>

\* route.ts:136-156  the interval callback: one stepProgress event.  Nobody
\* awaits the callback, so a failed write is an unhandled rejection.
Heartbeat ==
  /\ ticks < MaxTicks
  /\ \E t \in timers :
       ops' = Append(ops, Op("stepProgress", t, 0))
  /\ ticks' = ticks + 1
  /\ unhandled' = IF sinkOpen THEN unhandled ELSE unhandled + 1
  /\ UNCHANGED << fnArg, fnOut, route, pc, req, response, sinkOpen, planLen, i, timers,
                  results, calls, pendingThrow, lastCall, yielded, genState >>

\* A clearInterval that leaves the interval running.
ClearInterval_Noop(ts, t) == ts

\* route.ts:162-164, 194-196  clearInterval(statusInterval)
ClearInterval(ts, t) == ts \ {t}

\* A push that keeps only the results without an error.
PushResult_SkipFailed(rs, r) == IF r.error # "none" THEN rs ELSE Append(rs, r)

\* route.ts:167  executionResults.push(result)
PushResult(rs, r) == Append(rs, r)

\* route.ts:159-192  executeStep returns: the interval is cleared, the
\* result is pushed and stepComplete is sent.  An exception from
\* executeStep or from the write goes to the step's catch block.
PlanRunStepResume ==
  /\ pc = "pr_exec"
  /\ \E out \in StepOutcomes :
       IF out.thrown
       THEN /\ pc' = "pr_stepCatch"
            /\ UNCHANGED << ops, timers, results, i >>
       ELSE /\ timers' = ClearInterval(timers, i)
            /\ results' = PushResult(results, [out.result EXCEPT !.step = i])
            /\ ops' = Append(ops, Op("stepComplete", i, 0))
            /\ IF sinkOpen
               THEN pc' = "pr_loop" /\ i' = i + 1
               ELSE pc' = "pr_stepCatch" /\ i' = i
  /\ UNCHANGED << fnArg, fnOut, route, req, response, sinkOpen, planLen, ticks, calls,
                  pendingThrow, unhandled, lastCall, yielded, genState >>

\* route.ts:193-210  the step's catch block: clearInterval and stepError
PlanRunStepCatch ==
  /\ pc = "pr_stepCatch"
  /\ timers' = ClearInterval(timers, i)
  /\ ops' = Append(ops, Op("stepError", i, 0))
  /\ IF sinkOpen
     THEN pc' = "pr_loop" /\ i' = i + 1
     ELSE pc' = "pr_catch" /\ i' = i
  /\ UNCHANGED << fnArg, fnOut, route, req, response, sinkOpen, planLen, ticks, results,
                  calls, pendingThrow, unhandled, lastCall, yielded, genState >>

\* The loop's exit without the executionResults event (the results
\* travelling in the summary event instead).
PlanRunResults_Skipped ==
  /\ pc = "pr_loop"
  /\ i > planLen
  /\ ops' = Append(ops, Op("status", 0, 0))
  /\ pc' = IF sinkOpen THEN "pr_summarize" ELSE "pr_catch"
  /\ UNCHANGED << fnArg, fnOut, route, req, response, sinkOpen, planLen, i, timers, ticks,
                  results, calls, pendingThrow, unhandled, lastCall, yielded,
                  genState >>

\* route.ts:223-225  after the loop: the executionResults event
PlanRunResults ==
  /\ pc = "pr_loop"
  /\ i > planLen
  /\ ops' = Append(ops, Op("executionResults", Len(results), 0))
  /\ pc' = IF sinkOpen THEN "pr_status2" ELSE "pr_catch"
  /\ UNCHANGED << fnArg, fnOut, route, req, response, sinkOpen, planLen, i, timers, ticks,
                  results, calls, pendingThrow, unhandled, lastCall, yielded,
                  genState >>

\* route.ts:228  the second status event
PlanRunStatus2 ==
  /\ pc = "pr_status2"
  /\ ops' = Append(ops, Op("status", 0, 0))
  /\ pc' = IF sinkOpen THEN "pr_summarize" ELSE "pr_catch"
  /\ UNCHANGED << fnArg, fnOut, route, req, response, sinkOpen, planLen, i, timers, ticks,
                  results, calls, pendingThrow, unhandled, lastCall, yielded,
                  genState >>

\* route.ts:236-249  summarizeResults and the summary event
PlanRunSummary ==
  /\ pc = "pr_summarize"
  /\ calls' = calls \cup {"summarizer"}
  /\ \E completion \in {"text", "fails"} :
       IF summarizeResults(results, completion).thrown
       THEN pc' = "pr_catch" /\ ops' = ops
       ELSE /\ ops' = Append(ops, Op("summary", 0, 0))
            /\ pc' = IF sinkOpen THEN "pr_done" ELSE "pr_catch"
  /\ UNCHANGED << fnArg, fnOut, route, req, response, sinkOpen, planLen, i, timers, ticks,
                  results, pendingThrow, unhandled, lastCall, yielded, genState >>

\* route.ts:261-265  the done event
PlanRunDone ==
  /\ pc = "pr_done"
  /\ ops' = Append(ops, Op("done", Len(results), planLen))
  /\ pc' = IF sinkOpen THEN "pr_finally" ELSE "pr_catch"
  /\ UNCHANGED << fnArg, fnOut, route, req, response, sinkOpen, planLen, i, timers, ticks,
                  results, calls, pendingThrow, unhandled, lastCall, yielded,
                  genState >>

\* A catch block that closes the writer itself, before the finally block.
PlanRunCatch_AlsoCloses ==
  /\ pc = "pr_catch"
  /\ ops' = ops \o << Op("error", 0, 0), Op("close", 0, 0) >>
  /\ pendingThrow' = ~sinkOpen
  /\ pc' = "pr_finally"
  /\ UNCHANGED << fnArg, fnOut, route, req, response, sinkOpen, planLen, i, timers, ticks,
                  results, calls, unhandled, lastCall, yielded, genState >>

\* route.ts:266-270  the outer catch block: the error event
PlanRunCatch ==
  /\ pc = "pr_catch"
  /\ ops' = Append(ops, Op("error", 0, 0))
  /\ pendingThrow' = ~sinkOpen
  /\ pc' = "pr_finally"
  /\ UNCHANGED << fnArg, fnOut, route, req, response, sinkOpen, planLen, i, timers, ticks,
                  results, calls, unhandled, lastCall, yielded, genState >>

\* route.ts:271-274  the finally block: writer.close().  close() rejects on
\* an errored stream; that, or an exception that left the catch block,
\* rejects the promise of the async body, which nobody handles.
PlanRunFinally ==
  /\ pc = "pr_finally"
  /\ ops' = Append(ops, Op("close", 0, 0))
  /\ unhandled' = IF pendingThrow \/ ~sinkOpen THEN unhandled + 1 ELSE unhandled
  /\ pc' = "closed"
  /\ UNCHANGED << fnArg, fnOut, route, req, response, sinkOpen, planLen, i, timers, ticks,
                  results, calls, pendingThrow, lastCall, yielded, genState >>

\* The client disconnects: from then on every write to the sink fails.
Disconnect ==
  /\ response = "sse"
  /\ pc # "closed"
  /\ sinkOpen
  /\ sinkOpen' = FALSE
  /\ UNCHANGED << fnArg, fnOut, route, pc, req, response, ops, planLen, i, timers, ticks,
                  results, calls, pendingThrow, unhandled, lastCall, yielded,
                  genState >>

\* -------------------------------------------------- answer: the handler
AnswerBodies ==
  { [ kind |-> k, query |-> q, openrouterKey |-> o,
      executionResults |-> e, braveKey |-> FALSE ] :
      k \in {"object", "invalid"}, q \in {"absent", "empty", "text"},
      o \in {"absent", "empty", "text"},
      e \in {"absent", "emptyList", "list"} }

\* A validation that forgets executionResults.
AnswerMissing_NoResultsCheck(b) == Falsy(b.query) \/ Falsy(b.openrouterKey)

\* answer/route.ts:36  if (!query || !executionResults || !openrouterKey)
AnswerMissing(b) ==
  Falsy(b.query) \/ b.executionResults = "absent" \/ Falsy(b.openrouterKey)

\* answer/route.ts:24-66, 159-179: parse the body, validate it, open the stream
AnswerPOST ==
  /\ pc = "idle"
  /\ \E b \in { x \in AnswerBodies : x.kind = "invalid" =>
                  /\ x.query = "absent" /\ x.openrouterKey = "absent"
                  /\ x.executionResults = "absent" } :
       /\ route' = "answer"
       /\ req' = b
       /\ IF b.kind = "invalid"
          THEN response' = "500" /\ pc' = "responded"
          ELSE IF AnswerMissing(b)
          THEN response' = "400" /\ pc' = "responded"
          ELSE response' = "sse" /\ pc' = "an_status"
  /\ UNCHANGED << fnArg, fnOut, ops, sinkOpen, planLen, i, timers, ticks, results, calls,
                  pendingThrow, unhandled, lastCall, yielded, genState >>

\* answer/route.ts:74-78  the status event
AnswerStatus ==
  /\ pc = "an_status"
  /\ ops' = Append(ops, Op("status", 0, 0))
  /\ pc' = IF sinkOpen THEN "an_create" ELSE "an_catch"
  /\ UNCHANGED << fnArg, fnOut, route, req, response, sinkOpen, planLen, i, timers, ticks,
                  results, calls, pendingThrow, unhandled, lastCall, yielded,
                  genState >>

\* answer/route.ts:88-93  generateFinalAnswer: the generator, or an exception
AnswerCreate ==
  /\ pc = "an_create"
  /\ calls' = calls \cup {"summarizer"}
  /\ \E threw \in BOOLEAN :
       IF threw
       THEN genState' = "failed" /\ pc' = "an_catch"
       ELSE genState' = "open" /\ pc' = "an_stream"
  /\ UNCHANGED << fnArg, fnOut, route, req, response, ops, sinkOpen, planLen, i, timers,
                  ticks, results, pendingThrow, unhandled, lastCall, yielded >>

\* answer/route.ts:101-117  one turn of the for-await loop: a chunk and its
\* delta event
AnswerChunk ==
  /\ pc = "an_stream"
  /\ Len(yielded) < MaxChunks
  /\ \E c \in ChunkContents :
       /\ yielded' = Append(yielded, c)
       /\ ops' = Append(ops, Op("delta", c, 0))
  /\ pc' = IF sinkOpen THEN "an_stream" ELSE "an_catch"
  /\ UNCHANGED << fnArg, fnOut, route, req, response, sinkOpen, planLen, i, timers, ticks,
                  results, calls, pendingThrow, unhandled, lastCall, genState >>

\* A loop that takes a failure of the generator for its end.
AnswerChunkFails_Swallowed ==
  /\ pc = "an_stream"
  /\ genState' = "failed"
  /\ ops' = Append(ops, Op("done", 0, 0))
  /\ pc' = IF sinkOpen THEN "an_finally" ELSE "an_catch"
  /\ UNCHANGED << fnArg, fnOut, route, req, response, sinkOpen, planLen, i, timers, ticks,
                  results, calls, pendingThrow, unhandled, lastCall, yielded >>

\* answer/route.ts:101  the generator throws while it is iterated
AnswerChunkFails ==
  /\ pc = "an_stream"
  /\ genState' = "failed"
  /\ pc' = "an_catch"
  /\ UNCHANGED << fnArg, fnOut, route, req, response, ops, sinkOpen, planLen, i, timers,
                  ticks, results, calls, pendingThrow, unhandled, lastCall,
                  yielded >>

\* answer/route.ts:117-134  the generator is exhausted: the done event
AnswerDone ==
  /\ pc = "an_stream"
  /\ genState' = "finished"
  /\ ops' = Append(ops, Op("done", 0, 0))
  /\ pc' = IF sinkOpen THEN "an_finally" ELSE "an_catch"
  /\ UNCHANGED << fnArg, fnOut, route, req, response, sinkOpen, planLen, i, timers, ticks,
                  results, calls, pendingThrow, unhandled, lastCall, yielded >>

\* answer/route.ts:143-152  the catch block: the error event
AnswerCatch ==
  /\ pc = "an_catch"
  /\ ops' = Append(ops, Op("error", 0, 0))
  /\ pendingThrow' = ~sinkOpen
  /\ pc' = "an_finally"
  /\ UNCHANGED << fnArg, fnOut, route, req, response, sinkOpen, planLen, i, timers, ticks,
                  results, calls, unhandled, lastCall, yielded, genState >>

\* answer/route.ts:153-156  the finally block: writer.close()
AnswerFinally ==
  /\ pc = "an_finally"
  /\ ops' = Append(ops, Op("close", 0, 0))
  /\ unhandled' = IF pendingThrow \/ ~sinkOpen THEN unhandled + 1 ELSE unhandled
  /\ pc' = "closed"
  /\ UNCHANGED << fnArg, fnOut, route, req, response, sinkOpen, planLen, i, timers, ticks,
                  results, calls, pendingThrow, lastCall, yielded, genState >>

\* ------------------------------------------------ Executor.executeSteps
\* executor.ts:139-152  the call, with its list of steps
ExecuteStepsCall ==
  /\ pc = "idle"
  /\ route' = "executeSteps"
  /\ \E n \in 0..MaxSteps : planLen' = n
  /\ pc' = "ex_loop"
  /\ UNCHANGED << fnArg, fnOut, req, response, ops, sinkOpen, i, timers, ticks, results,
                  calls, pendingThrow, unhandled, lastCall, yielded, genState >>

\* executor.ts:154-164  one turn of the loop: executeStep, push, onProgress.
\* An exception from executeStep would leave executeSteps.
ExecuteStepsTurn ==
  /\ pc = "ex_loop"
  /\ i <= planLen
  /\ \E in \in ExecInputs :
       LET out == executeStep(i, in)
       IN /\ lastCall' = CallOf(in)
          /\ IF out.thrown
             THEN pc' = "ex_threw" /\ UNCHANGED << results, ops, i >>
             ELSE /\ results' = Append(results, out.result)
                  /\ ops' = Append(ops, Op("onProgress", i, 0))
                  /\ i' = i + 1
                  /\ pc' = "ex_loop"
  /\ UNCHANGED << fnArg, fnOut, route, req, response, sinkOpen, planLen, timers, ticks,
                  calls, pendingThrow, unhandled, yielded, genState >>

\* executor.ts:166-176  the loop is over: the results are returned
ExecuteStepsReturn ==
  /\ pc = "ex_loop"
  /\ i > planLen
  /\ pc' = "ex_returned"
  /\ UNCHANGED << fnArg, fnOut, route, req, response, ops, sinkOpen, planLen, i, timers,
                  ticks, results, calls, pendingThrow, unhandled, lastCall,
                  yielded, genState >>

\* ----------------------------------------------------- the specification
Next ==
  \/ PlanRunPOST \/ PlanRunStatus \/ PlanRunPlan \/ PlanRunExecutor
  \/ PlanRunStepStart \/ PlanRunArm \/ Heartbeat \/ PlanRunStepResume
  \/ PlanRunStepCatch \/ PlanRunResults \/ PlanRunStatus2 \/ PlanRunSummary
  \/ PlanRunDone \/ PlanRunCatch \/ PlanRunFinally \/ Disconnect
  \/ AnswerPOST \/ AnswerStatus \/ AnswerCreate \/ AnswerChunk
  \/ AnswerChunkFails \/ AnswerDone \/ AnswerCatch \/ AnswerFinally
  \/ ExecuteStepsCall \/ ExecuteStepsTurn \/ ExecuteStepsReturn

Spec == Init /\ [][Next]_vars

\* ------------------------------------------- the functions on their own
\* One call of a function: the arguments are drawn at the start and the
\* action applies the function to them.
FnCalls ==
  PlanCalls \cup RouteCalls \cup QuoteCalls \cup MoversCalls \cup SummarizeCalls
    \cup ConsumerCalls \cup FetchCalls \cup AnswerCalls \cup ClientCalls
    \cup TwiceCalls \cup RefineCalls \cup SummarizeResultCalls
    \cup ChartCalls \cup AnswerPhaseCalls \cup FallbackRouteCalls
    \cup GeneralSearchCalls \cup StreamChunkCalls

FnInit == Idle /\ fnArg \in FnCalls /\ fnOut = NoOut

requestVars ==
  << route, pc, req, response, ops, sinkOpen, planLen, i, timers, ticks,
     results, calls, pendingThrow, unhandled, lastCall, yielded, genState >>

\* planner.ts generatePlan
CallGeneratePlan ==
  /\ fnArg.fn = "generatePlan"
  /\ ~fnOut.done
  /\ fnOut' = [ done |-> TRUE,
                plan |-> generatePlan(fnArg.question, fnArg.response) ]
  /\ UNCHANGED << fnArg, requestVars >>

\* executor.ts executeStep:43-106  the ticker and the branch chosen
CallExecuteStep ==
  /\ fnArg.fn = "executeStep"
  /\ ~fnOut.done
  /\ fnOut' =
       [ done |-> TRUE,
         ticker |-> primaryTicker(originalText(fnArg.title, fnArg.description,
                                               fnArg.context)),
         branch |-> BranchOfText(fnArg.title, fnArg.description, fnArg.context),
         ret |-> executeStep(0, InputOfText(fnArg.title, fnArg.description,
                                            fnArg.context, fnArg.env)) ]
  /\ UNCHANGED << fnArg, requestVars >>

\* executor.ts executeQuoteStep
CallExecuteQuoteStep ==
  /\ fnArg.fn = "executeQuoteStep"
  /\ ~fnOut.done
  /\ fnOut' = [ done |-> TRUE, calls |-> quoteCalls(fnArg.env),
                ret |-> executeQuoteStep(0, fnArg.env) ]
  /\ UNCHANGED << fnArg, requestVars >>

\* executor.ts executeMarketMoversStep
CallExecuteMarketMoversStep ==
  /\ fnArg.fn = "executeMarketMoversStep"
  /\ ~fnOut.done
  /\ fnOut' = [ done |-> TRUE,
                calls |-> moversCalls(moversEnv(fnArg.query, fnArg.env)),
                ret |-> executeMarketMoversStep(0, moversEnv(fnArg.query, fnArg.env)) ]
  /\ UNCHANGED << fnArg, requestVars >>

\* Summarizer.summarizeResults
CallSummarizeResults ==
  /\ fnArg.fn = "summarizeResults"
  /\ ~fnOut.done
  /\ fnOut' = [ done |-> TRUE,
                ret |-> summarizeResults(fnArg.results, fnArg.completion) ]
  /\ UNCHANGED << fnArg, requestVars >>

\* SSEConsumer [Symbol.asyncIterator]: the body read in one chunk, and read
\* in the two chunks the cut makes
CallSSEConsumer ==
  /\ fnArg.fn = "SSEConsumer"
  /\ ~fnOut.done
  /\ fnOut' =
       [ done |-> TRUE,
         whole |-> Consume(<< >>, << fnArg.body >>),
         split |-> IF fnArg.cut = 0 THEN Consume(<< >>, << fnArg.body >>)
                   ELSE Consume(<< >>, << SubSeq(fnArg.body, 1, fnArg.cut),
                                          SubSeq(fnArg.body, fnArg.cut + 1,
                                                 Len(fnArg.body)) >>) ]
  /\ UNCHANGED << fnArg, requestVars >>

\* fetchWithRetry:409-457  one turn of the loop; after the last turn
\* (attempt > retries, which no turn leaves behind) the final throw
FetchWithRetryTurn ==
  /\ fnArg.fn = "fetchWithRetry"
  /\ ~fnOut.done
  /\ LET st == IF fnOut = NoOut THEN FetchStart ELSE fnOut
     IN IF st.attempt <= fnArg.retries
        THEN \E o \in FetchOutcomes :
               fnOut' = fetchWithRetryTurn(st, fnArg.retries, fnArg.retryDelay, o)
        ELSE fnOut' = [ done |-> TRUE, attempt |-> st.attempt,
                        fetches |-> st.fetches, waits |-> st.waits,
                        thrown |-> TRUE, status |-> 0 ]
  /\ UNCHANGED << fnArg, requestVars >>

\* Summarizer.generateFinalAnswer, iterated to its end
CallGenerateFinalAnswer ==
  /\ fnArg.fn = "generateFinalAnswer"
  /\ ~fnOut.done
  /\ fnOut' = [ done |-> TRUE, ret |-> generateFinalAnswer(fnArg.upstream) ]
  /\ UNCHANGED << fnArg, requestVars >>

\* The client's state during handleSubmit
ClientState == IF fnOut = NoOut THEN ClientStart ELSE fnOut

\* handleSubmit:85-196  one turn of the for-await loop over the plan-run
\* stream
ClientEvent ==
  /\ fnArg.fn = "handleSubmit" /\ fnArg.httpOk
  /\ ~fnOut.done
  /\ ClientState.pos < Len(fnArg.stream)
  /\ fnOut' = [ handleEvent(ClientState, fnArg.stream[ClientState.pos + 1])
                  EXCEPT !.pos = @ + 1 ]
  /\ UNCHANGED << fnArg, requestVars >>

\* handleSubmit:198-219  the stream has ended: setExecutionResults and the
\* /answer request
ClientAnswer ==
  /\ fnArg.fn = "handleSubmit" /\ fnArg.httpOk
  /\ ~fnOut.done
  /\ ClientState.pos = Len(fnArg.stream)
  /\ fnArg.readEnd = "eof"
  /\ fnOut' = [ ClientState EXCEPT !.done = TRUE, !.answerSent = TRUE ]
  /\ UNCHANGED << fnArg, requestVars >>

\* handleSubmit:77-79, 238-246  the plan-run response is not ok, or the read
\* of the stream fails: the catch block, and no /answer request
ClientCatch ==
  /\ fnArg.fn = "handleSubmit"
  /\ ~fnOut.done
  /\ \/ ~fnArg.httpOk
     \/ ClientState.pos = Len(fnArg.stream) /\ fnArg.readEnd = "readError"
  /\ fnOut' = [ ClientState EXCEPT !.done = TRUE ]
  /\ UNCHANGED << fnArg, requestVars >>

\* The client's state during the answer phase of handleSubmit
AnswerLoopState == IF fnOut = NoOut THEN AnswerLoopStart ELSE fnOut

\* handleSubmit:228-237  one turn of the for-await loop over the answer
\* stream
ClientAnswerEvent ==
  /\ fnArg.fn = "handleSubmitAnswer" /\ fnArg.httpOk
  /\ ~fnOut.done
  /\ AnswerLoopState.pos < Len(fnArg.stream)
  /\ fnOut' = [ handleAnswerEvent(AnswerLoopState,
                                  fnArg.stream[AnswerLoopState.pos + 1])
                  EXCEPT !.pos = @ + 1 ]
  /\ UNCHANGED << fnArg, requestVars >>

\* handleSubmit:221-223, 237-246  the /answer response is not ok, or the
\* stream has ended or its read failed: the end of handleSubmit
ClientAnswerEnd ==
  /\ fnArg.fn = "handleSubmitAnswer"
  /\ ~fnOut.done
  /\ ~fnArg.httpOk \/ AnswerLoopState.pos = Len(fnArg.stream)
  /\ fnOut' = endOfSubmit(AnswerLoopState,
                          ~fnArg.httpOk \/ fnArg.readEnd = "readError")
  /\ UNCHANGED << fnArg, requestVars >>

\* executor.ts executeStep, called twice on the same input: once with the
\* news search settling first, once with the web search settling first
CallExecuteStepTwice ==
  /\ fnArg.fn = "executeStepTwice"
  /\ ~fnOut.done
  /\ fnOut' =
       [ done |-> TRUE,
         first |-> executeStep(0, [fnArg.input EXCEPT !.env.raceFirst = "news"]),
         second |-> executeStep(0, [fnArg.input EXCEPT !.env.raceFirst = "web"]) ]
  /\ UNCHANGED << fnArg, requestVars >>

\* planner.ts refinePlan
CallRefinePlan ==
  /\ fnArg.fn = "refinePlan"
  /\ ~fnOut.done
  /\ fnOut' = [ done |-> TRUE, ret |-> refinePlan(fnArg.executed, fnArg.response) ]
  /\ UNCHANGED << fnArg, requestVars >>

\* Summarizer.summarizeResult
CallSummarizeResult ==
  /\ fnArg.fn = "summarizeResult"
  /\ ~fnOut.done
  /\ fnOut' = [ done |-> TRUE,
                ret |-> summarizeResult(fnArg.len, fnArg.data, fnArg.completion) ]
  /\ UNCHANGED << fnArg, requestVars >>

\* plan-run/route.ts:112-160  the steps of the fallback plan of the
\* question, each executed with the question as its context
CallExecuteFallbackPlan ==
  /\ fnArg.fn = "executeFallbackPlan"
  /\ ~fnOut.done
  /\ fnOut' = [ done |-> TRUE, plan |-> getFallbackPlan(fnArg.question),
                branches |-> fallbackBranches(fnArg.question) ]
  /\ UNCHANGED << fnArg, requestVars >>

\* executor.ts executeGeneralSearchStep, and the searchBoth call it makes
CallExecuteGeneralSearchStep ==
  /\ fnArg.fn = "executeGeneralSearchStep"
  /\ ~fnOut.done
  /\ fnOut' = [ done |-> TRUE, both |-> searchBoth(fnArg.env),
                ret |-> executeGeneralSearchStep(0, fnArg.env) ]
  /\ UNCHANGED << fnArg, requestVars >>

\* The non-empty ones of the three pieces the two cuts make of a body
ChunksOf(body, cut, mid) ==
  IF cut = 0 THEN << body >>
  ELSE SelectSeq(<< SubSeq(body, 1, cut), SubSeq(body, cut + 1, cut + mid),
                    SubSeq(body, cut + mid + 1, Len(body)) >>,
                 LAMBDA chunk : chunk # << >>)

\* openrouter.ts streamComplete: the body read in one chunk, and read in the
\* chunks the cuts make
CallStreamCompleteChunks ==
  /\ fnArg.fn = "streamCompleteChunks"
  /\ ~fnOut.done
  /\ LET body == StreamBody(fnArg.kinds)
     IN fnOut' = [ done |-> TRUE,
                   whole |-> streamChunks(<< >>, << body >>),
                   split |-> streamChunks(<< >>, ChunksOf(body, fnArg.cut, fnArg.mid)) ]
  /\ UNCHANGED << fnArg, requestVars >>

\* executor.ts executeChartStep
CallExecuteChartStep ==
  /\ fnArg.fn = "executeChartStep"
  /\ ~fnOut.done
  /\ fnOut' = [ done |-> TRUE, calls |-> chartCalls(fnArg.env),
                ret |-> executeChartStep(0, fnArg.env) ]
  /\ UNCHANGED << fnArg, requestVars >>

FnNext ==
  \/ CallGeneratePlan \/ CallExecuteStep
  \/ CallExecuteQuoteStep \/ CallExecuteMarketMoversStep
  \/ CallSummarizeResults \/ CallSSEConsumer \/ FetchWithRetryTurn
  \/ CallGenerateFinalAnswer
  \/ ClientEvent \/ ClientAnswer \/ ClientCatch
  \/ CallExecuteStepTwice \/ CallRefinePlan \/ CallSummarizeResult
  \/ CallExecuteChartStep
  \/ ClientAnswerEvent \/ ClientAnswerEnd
  \/ CallExecuteFallbackPlan \/ CallExecuteGeneralSearchStep
  \/ CallStreamCompleteChunks

FnSpec == FnInit /\ [][FnNext]_vars

\* The same with the event loop's guarantee for fetchWithRetry: every fetch
\* settles (fetchWithTimeout aborts it when the timer fires) and every
\* setTimeout of the backoff fires, so a turn that can run does run.
FnLive == FnSpec /\ WF_vars(FetchWithRetryTurn)

\* ------------------------------------------------------------ the claims
\* The events the sink accepted, in order (the close is no event).
Delivered == SelectSeq(ops, LAMBDA o : o.ok /\ o.ev # "close")

HasOp(ev) == \E p \in DOMAIN ops : ops[p].ev = ev /\ ops[p].ok

\* The grammar of the plan-run stream as an automaton over the events.
Q0 == [ph |-> "init", k |-> 0, n |-> 0]

Delta(q, e) ==
  CASE q.ph = "init" /\ e.ev = "status" -> [q EXCEPT !.ph = "planning"]
    [] q.ph = "planning" /\ e.ev = "plan" -> [ph |-> "loop", k |-> 1, n |-> e.idx]
    [] q.ph = "loop" /\ q.k <= q.n /\ e.ev = "stepStart" /\ e.idx = q.k ->
         [q EXCEPT !.ph = "step"]
    [] q.ph = "step" /\ e.ev = "stepProgress" /\ e.idx = q.k -> q
    [] q.ph = "step" /\ e.ev \in {"stepComplete", "stepError"} /\ e.idx = q.k ->
         [q EXCEPT !.ph = "loop", !.k = q.k + 1]
    [] q.ph = "loop" /\ q.k > q.n /\ e.ev = "executionResults" ->
         [q EXCEPT !.ph = "results"]
    [] q.ph = "results" /\ e.ev = "status" -> [q EXCEPT !.ph = "status2"]
    [] q.ph = "status2" /\ e.ev = "summary" -> [q EXCEPT !.ph = "summary"]
    [] q.ph = "summary" /\ e.ev = "done" -> [q EXCEPT !.ph = "end"]
    [] q.ph \notin {"init", "end", "bad"} /\ e.ev = "error" -> [q EXCEPT !.ph = "end"]
    [] OTHER -> [q EXCEPT !.ph = "bad"]

RECURSIVE RunFrom(_, _)
RunFrom(q, s) == IF s = << >> THEN q ELSE RunFrom(Delta(q, Head(s)), Tail(s))

\* C1: while the sink accepts every write, the events of a plan-run stream
\* follow status, plan, (stepStart, stepProgress*, stepComplete|stepError)
\* per step in plan order, executionResults, status, summary, done, or a
\* prefix of that followed by one error; once the stream is closed the
\* sequence has ended with done or with error, and nothing follows either.
C1_EventOrder ==
  (route = "plan-run" /\ sinkOpen) =>
     LET q == RunFrom(Q0, Delivered)
     IN /\ q.ph # "bad"
        /\ pc = "closed" => q.ph = "end"

C1_Witness ==
  /\ route = "plan-run" /\ sinkOpen /\ pc = "closed"
  /\ planLen >= 2
  /\ HasOp("stepProgress") /\ HasOp("done")

\* C2: no stepProgress of step i is written before stepStart(i) or after
\* stepComplete(i) or stepError(i), whatever the interleaving of the
\* heartbeat callback with the step, and whether the writes succeed or fail.
C2_ProgressInsideStep ==
  \A p \in DOMAIN ops :
    ops[p].ev = "stepProgress" =>
      /\ \E a \in 1..(p - 1) : ops[a].ev = "stepStart" /\ ops[a].idx = ops[p].idx
      /\ ~ \E b \in 1..(p - 1) :
             /\ ops[b].ev \in {"stepComplete", "stepError"}
             /\ ops[b].idx = ops[p].idx

C2_Witness ==
  \E p \in DOMAIN ops, b \in DOMAIN ops :
    /\ ops[p].ev = "stepProgress" /\ ops[b].ev = "stepError"
    /\ ops[p].idx = ops[b].idx /\ p < b

\* C3: on every path of plan-run and answer the writer is closed exactly
\* once, the close is the last operation on the writer, and no event is
\* written after it.
C3_ClosedOnceAndLast ==
  (route \in {"plan-run", "answer"}) =>
     /\ \A p \in DOMAIN ops : ops[p].ev = "close" => p = Len(ops)
     /\ pc = "closed" => (Len(ops) > 0 /\ ops[Len(ops)].ev = "close")
     /\ (response = "sse" /\ pc # "closed") => ~ \E p \in DOMAIN ops : ops[p].ev = "close"

C3_Witness ==
  /\ pc = "closed" /\ route = "plan-run"
  /\ \E p \in DOMAIN ops : ops[p].ev = "stepError"
  /\ \E p \in DOMAIN ops : ops[p].ev = "error"
  /\ ops[Len(ops)].ev = "close"

Count(ev) == Cardinality({ p \in DOMAIN ops : ops[p].ev = ev })

\* C4: executeStep never throws: when a provider call throws inside a
\* branch the result has error set to the message and data null; the loop
\* of executeSteps and the loop of plan-run still run every step, so the
\* results are as many as the steps.
C4_StepFailureContained ==
  /\ pc # "ex_threw"
  /\ (route = "executeSteps" /\ lastCall.thrown /\ Len(results) > 0) =>
        /\ results[Len(results)].error = lastCall.message
        /\ results[Len(results)].data = "null"
  /\ pc = "ex_returned" => Len(results) = planLen
  /\ (route = "plan-run" /\ sinkOpen) =>
        /\ Count("stepError") = 0
        /\ pc \in {"pr_status2", "pr_summarize", "pr_done"} =>
             (Len(results) = planLen /\ Count("stepStart") = planLen)

C4_Witness ==
  /\ route = "executeSteps" /\ pc = "ex_returned" /\ planLen = 2
  /\ results[1].error # "none" /\ results[1].data = "null"
  /\ results[2].error = "none"

\* C5: a step whose provider call failed ends with stepError, never with
\* stepComplete.
C5_FailedStepEndsWithStepError ==
  \A p \in DOMAIN ops :
    (route = "plan-run" /\ ops[p].ev = "stepComplete" /\ ops[p].ok) =>
       results[ops[p].idx].error = "none"

\* C6: after the first failed write no further operation is attempted on
\* the writer and no rejection is left unhandled.
C6_StopsWritingAfterDisconnect ==
  (route \in {"plan-run", "answer"}) =>
     /\ Cardinality({ p \in DOMAIN ops : ~ops[p].ok }) <= 1
     /\ unhandled = 0

\* C7: in every ExecutionResult, data is null only if error is set.
C7_NullDataOnlyWithError ==
  \A k \in DOMAIN results :
    results[k].data = "null" => results[k].error # "none"

C7_Witness ==
  /\ \E k \in DOMAIN results :
       results[k].data = "null" /\ results[k].error # "none"
  /\ \E k \in DOMAIN results :
       results[k].provider = "brave_web" /\ results[k].data = "emptyList"

\* C8: when plan-run sends done, stepsCompleted = totalSteps = the number
\* of steps of the plan event = the number of results of the
\* executionResults event, and result k is the result of step k.
C8_DoneCounts ==
  \A p \in DOMAIN ops :
    (route = "plan-run" /\ ops[p].ev = "done") =>
       /\ ops[p].idx = ops[p].aux
       /\ \E a \in 1..(p - 1) : ops[a].ev = "plan" /\ ops[a].idx = ops[p].aux
       /\ \E a \in 1..(p - 1) :
            ops[a].ev = "executionResults" /\ ops[a].idx = ops[p].idx
       /\ Len(results) = ops[p].aux
       /\ \A k \in DOMAIN results : results[k].step = k

C8_Witness ==
  /\ route = "plan-run" /\ HasOp("done") /\ planLen = 2
  /\ results[1].error # "none"

\* C9: while the sink accepts every write, the answer stream is one status,
\* one delta per chunk the generator yielded, in the same order and with
\* the same content, and then one terminal event: done when the generator
\* finished, error when creating or iterating it failed.
AnswerExpected ==
  IF pc = "an_status" THEN << >>
  ELSE << [ev |-> "status", idx |-> 0] >>
       \o [ k \in 1..Len(yielded) |-> [ev |-> "delta", idx |-> yielded[k]] ]
       \o (IF pc \in {"an_finally", "closed"}
           THEN << [ev |-> IF genState = "finished" THEN "done" ELSE "error",
                    idx |-> 0] >>
           ELSE << >>)

C9_AnswerStream ==
  (route = "answer" /\ response = "sse" /\ sinkOpen) =>
     [ j \in DOMAIN Delivered |-> [ev |-> Delivered[j].ev, idx |-> Delivered[j].idx] ]
       = AnswerExpected

C9_Witness ==
  /\ route = "answer" /\ sinkOpen /\ pc = "closed"
  /\ genState = "failed" /\ Len(yielded) = 2
  /\ HasOp("error") /\ ~HasOp("done")

RunEnd(text, p) ==
  CHOOSE e \in p..Len(text) :
    /\ \A k \in p..e : IsWordChar(text[k])
    /\ e = Len(text) \/ ~IsWordChar(text[e + 1])

RECURSIVE TokensFrom(_, _)
TokensFrom(text, p) ==
  IF p > Len(text) THEN << >>
  ELSE IF ~IsWordChar(text[p]) THEN TokensFrom(text, p + 1)
  ELSE << SubSeq(text, p, RunEnd(text, p)) >> \o TokensFrom(text, RunEnd(text, p) + 1)

Tokens(text) == TokensFrom(text, 1)

\* A token of lo to hi capital letters
IsCapitals(token, lo, hi) ==
  /\ Len(token) \in lo..hi
  /\ \A k \in DOMAIN token : IsUpper(token[k])

Abbreviations ==
  { <<"A", "I">>,
    <<"I", "T">>,
    <<"U", "S">>,
    <<"U", "K">>,
    <<"E", "U">>,
    <<"C", "E", "O">>,
    <<"C", "F", "O">>,
    <<"C", "T", "O">>,
    <<"I", "P", "O">>,
    <<"E", "T", "F">>,
    <<"A", "P", "I">>,
    <<"U", "R", "L">>,
    <<"U", "S", "D">>,
    <<"N", "Y", "S", "E">>,
    <<"N", "A", "S", "D", "A", "Q">> }

PlanReturned == fnArg.fn = "generatePlan" /\ fnOut.done

\* C11: when the completion call fails, the response is no JSON or the
\* parsed value is no array, generatePlan returns the fallback plan for the
\* question, which has at least one step.
C11_BadResponseGivesFallback ==
  (PlanReturned /\ fnArg.response.kind \in {"fails", "notJSON", "notArray"})
    => /\ fnOut.plan = getFallbackPlan(fnArg.question)
       /\ Len(fnOut.plan) >= 1

\* C12: a plan generatePlan returns is empty or has between 1 and maxSteps
\* steps.
C12_PlanWithinMaxSteps ==
  PlanReturned => Len(fnOut.plan) = 0 \/ Len(fnOut.plan) \in 1..fnArg.maxSteps

\* The entries of the array with a non-empty title and a non-empty
\* description, in their order, the title cut to 50 characters and the
\* description to 200.
EntriesKept(items) ==
  LET valid == SelectSeq(items, LAMBDA e :
                 /\ e.type = "object"
                 /\ e.title.present /\ e.title.str.len > 0
                 /\ e.description.present /\ e.description.str.len > 0)
      cut(s, n) == [s EXCEPT !.len = IF s.len > n THEN n ELSE s.len]
  IN [ p \in DOMAIN valid |->
         [ title |-> cut(valid[p].title.str, 50),
           description |-> cut(valid[p].description.str, 200) ] ]

\* C13: when the model returns an array, generatePlan returns exactly its
\* valid entries, in order and cut to length; an invalid entry (a null among
\* them) is dropped and the others are kept.
C13_ArrayEntriesValidated ==
  (PlanReturned /\ fnArg.response.kind = "array")
    => fnOut.plan = EntriesKept(fnArg.response.items)

StepRouted == fnArg.fn = "executeStep" /\ fnOut.done

RoutedText ==
  toLowerCase(originalText(fnArg.title, fnArg.description, fnArg.context))

\* C14: executeStep takes the branch of the first rule that matches, in the
\* order movers, quote with a ticker, chart with a ticker, news (ticker news
\* or general news), web search, combined ticker fetch, combined search.
C14_FirstMatchingRule ==
  StepRouted =>
    LET text == RoutedText
        hasTicker == fnOut.ticker # << >>
        movers == needsMarketMovers(text)
        quote == needsQuoteData(text) /\ hasTicker
        chart == needsChartData(text) /\ hasTicker
        news == needsNewsData(text)
        web == needsWebSearch(text)
    IN /\ movers => fnOut.branch = "movers"
       /\ (~movers /\ quote) => fnOut.branch = "quote"
       /\ (~movers /\ ~quote /\ chart) => fnOut.branch = "chart"
       /\ (~movers /\ ~quote /\ ~chart /\ news) =>
            fnOut.branch = IF hasTicker THEN "tickerNews" ELSE "generalNews"
       /\ (~movers /\ ~quote /\ ~chart /\ ~news /\ web) => fnOut.branch = "web"
       /\ (~movers /\ ~quote /\ ~chart /\ ~news /\ ~web) =>
            fnOut.branch = IF hasTicker THEN "combinedTicker" ELSE "generalSearch"

\* A step with a quote keyword, a news keyword and a ticker went to the
\* quote branch.
C14_Witness ==
  /\ StepRouted
  /\ needsQuoteData(RoutedText) /\ needsNewsData(RoutedText)
  /\ ~needsMarketMovers(RoutedText)
  /\ fnOut.ticker # << >>
  /\ fnOut.branch = "quote"

\* The first token of 2 to 5 capital letters that is no abbreviation
FirstTicker(text) ==
  First(SelectSeq(Tokens(text), LAMBDA t : IsCapitals(t, 2, 5) /\ t \notin Abbreviations))

\* C15: the primary ticker is the first token of the original-case text that
\* is 2 to 5 capital letters and not in the denylist; without such a token
\* there is no ticker and no branch that needs one is taken.
C15_PrimaryTicker ==
  StepRouted =>
    /\ fnOut.ticker = FirstTicker(originalText(fnArg.title, fnArg.description,
                                               fnArg.context))
    /\ fnOut.ticker = << >> =>
         fnOut.branch \notin {"quote", "chart", "tickerNews", "combinedTicker"}

\* "AI" comes first in the text and the ticker found is NVDA.
C15_Witness ==
  /\ StepRouted
  /\ fnArg.title = <<"A", "I">>
  /\ fnOut.ticker = <<"N", "V", "D", "A">>

AllDelivered == \A p \in DOMAIN ops : ops[p].ok

\* C16: whatever provider keys are absent, a plan-run request with a valid
\* body starts every step of its plan and ends with done, not with error
\* (the client staying connected).
C16_AbsentKeysStillDone ==
  (route = "plan-run" /\ pc = "closed" /\ AllDelivered)
    => /\ Count("stepStart") = planLen
       /\ HasOp("done")
       /\ ~HasOp("error")

FellBack == PlanReturned /\ fnArg.response.kind \in {"fails", "notJSON"}

\* C17: a question without a token of 2 to 5 capital letters that is no
\* abbreviation gets a fallback plan without a ticker-specific step.
C17_FallbackTickerFiltered ==
  (FellBack /\ FirstTicker(fnArg.question) = << >>)
    => \A p \in DOMAIN fnOut.plan :
         /\ fnOut.plan[p].title.ticker = << >>
         /\ fnOut.plan[p].description.ticker = << >>

\* The titles of a plan
Titles(plan) == [ p \in DOMAIN plan |-> plan[p].title.src ]

\* C18: the fallback plan has 1 or 2 steps chosen by the first rule that
\* matches: ticker and price|quote, ticker and news, market|today, ticker
\* alone, otherwise the generic step; a step about the ticker names it in
\* its title and its description.
C18_FallbackRules ==
  FellBack =>
    LET q == toLowerCase(fnArg.question)
        T == First(SelectSeq(Tokens(fnArg.question), LAMBDA t : IsCapitals(t, 1, 5)))
        hasT == T # << >>
        has(w) == includes(q, w)
        plan == fnOut.plan
        aboutT == \A p \in DOMAIN plan :
                    plan[p].title.ticker = T /\ plan[p].description.ticker = T
        noTicker == \A p \in DOMAIN plan :
                      plan[p].title.ticker = << >> /\ plan[p].description.ticker = << >>
    IN /\ Len(plan) \in {1, 2}
       /\ IF hasT /\ (has(<<"p", "r", "i", "c", "e">>) \/ has(<<"q", "u", "o", "t", "e">>))
          THEN Titles(plan) = << "Get $ quote", "Get $ news" >> /\ aboutT
          ELSE IF hasT /\ has(<<"n", "e", "w", "s">>)
          THEN Titles(plan) = << "Get $ news" >> /\ aboutT
          ELSE IF has(<<"m", "a", "r", "k", "e", "t">>) \/ has(<<"t", "o", "d", "a", "y">>)
          THEN Titles(plan) = << "Get market news" >> /\ noTicker
          ELSE IF hasT
          THEN Titles(plan) = << "Research $" >> /\ aboutT
          ELSE Titles(plan) = << "Search financial news" >> /\ noTicker

\* The fallback plan of a question with a ticker and "today": the market
\* step, which comes before the step for a ticker alone.
C18_Witness ==
  /\ FellBack
  /\ First(MatchFrom(fnArg.question, 1, 1, 5)) # << >>
  /\ includes(toLowerCase(fnArg.question), <<"t", "o", "d", "a", "y">>)
  /\ Titles(fnOut.plan) = << "Get market news" >>

QuoteReturned == fnArg.fn = "executeQuoteStep" /\ fnOut.done

\* The position of a provider call in the calls made, 0 when it was not made
CallPos(name) ==
  IF \E p \in DOMAIN fnOut.calls : fnOut.calls[p] = name
  THEN CHOOSE p \in DOMAIN fnOut.calls : fnOut.calls[p] = name
  ELSE 0

\* C19: the quote branch asks Polygon, then FMP, then the Brave web search,
\* each only when every provider before it was unavailable or had no quote,
\* and the provider tag of the result names the provider whose data it is.
C19_QuoteFallbackOrder ==
  QuoteReturned =>
    LET env == fnArg.env
        polygon == CallPos("polygon.getQuote")
        fmp == IF env.needsFullQuote THEN CallPos("fmp.getQuote")
               ELSE CallPos("fmp.getQuoteLight")
        brave == CallPos("brave.searchWeb")
        polygonQuote == env.polygonKey /\ env.polygonQuote # "null"
        fmpQuote == env.fmpKey /\ (IF env.needsFullQuote THEN env.fmpQuote # "null"
                                   ELSE env.fmpQuoteLight # "null")
    IN /\ polygon > 0 <=> env.polygonKey
       /\ fmp > 0 <=> ~polygonQuote
       /\ brave > 0 <=> (~polygonQuote /\ ~fmpQuote)
       /\ fmp > 0 => polygon < fmp
       /\ brave > 0 => fmp > 0 /\ fmp < brave
       /\ Len(fnOut.calls) <= 3
       /\ ~fnOut.ret.thrown =>
            fnOut.ret.result.provider =
              (IF polygonQuote THEN "polygon_quote"
               ELSE IF fmpQuote THEN "fmp_quote" ELSE "brave_web")
       /\ fnOut.ret.thrown => brave > 0 /\ env.braveWeb = "throw"

\* All three providers were asked in turn and the web results came back.
C19_Witness ==
  /\ QuoteReturned
  /\ fnOut.calls = << "polygon.getQuote", "fmp.getQuoteLight", "brave.searchWeb" >>
  /\ ~fnOut.ret.thrown
  /\ fnOut.ret.result.provider = "brave_web"

MoversReturned == fnArg.fn = "executeMarketMoversStep" /\ fnOut.done

\* C20: when the movers provider is unavailable, fails, or returns only
\* empty lists, the step returns the news found by the news search, with
\* provider brave_news.
C20_MoversFallBackToNews ==
  (MoversReturned /\ FMPGetMovers(fnArg.env) = "empty")
    => /\ CallPos("brave.searchNews") > 0
       /\ ~fnOut.ret.thrown
       /\ fnOut.ret.result.provider = "brave_news"

\* What the text of a movers step asks for
AsksFor(query, words) == \E w \in words : includes(query, w)

\* C21: gainers are fetched iff the text asks for gainers or for neither
\* losers nor actives, losers iff it asks for losers or for neither gainers
\* nor actives, actives iff it asks for actives; a text that asks for none
\* gets exactly gainers and losers.
C21_MoversFetchedByIntent ==
  MoversReturned =>
    LET gainers == AsksFor(fnArg.query, { <<"g", "a", "i", "n", "e", "r">>, <<"b", "e", "s", "t">>, <<"t", "o", "p">> })
        losers == AsksFor(fnArg.query, { <<"l", "o", "s", "e", "r">>, <<"w", "o", "r", "s", "t">>, <<"d", "o", "w", "n">> })
        actives == AsksFor(fnArg.query, { <<"a", "c", "t", "i", "v", "e">>, <<"v", "o", "l", "u", "m", "e">> })
    IN /\ CallPos("fmp.getTopGainers") > 0 <=> (gainers \/ (~losers /\ ~actives))
       /\ CallPos("fmp.getTopLosers") > 0 <=> (losers \/ (~gainers /\ ~actives))
       /\ CallPos("fmp.getMostActives") > 0 <=> actives
       /\ (~gainers /\ ~losers /\ ~actives) =>
            SubSeq(fnOut.calls, 1, 2) = << "fmp.getTopGainers", "fmp.getTopLosers" >>

\* The text "movers" asks for no list: gainers and losers were fetched.
C21_Witness ==
  /\ MoversReturned
  /\ fnArg.query = <<"m", "o", "v", "e", "r", "s">>
  /\ fnOut.calls = << "fmp.getTopGainers", "fmp.getTopLosers" >>

\* C22: the step of a question without a ticker and without a special
\* keyword, "tell me about markets", takes the general search: its result
\* has provider combined and both a news list and a web list as data.
C22_GeneralQueryIsCombined ==
  (StepRouted /\ fnArg.context = GeneralQuery
     /\ fnArg.title = MarketStepTitle /\ fnArg.description = MarketStepDescription)
    => /\ fnOut.branch = "generalSearch"
       /\ fnOut.ret.result.provider = "combined"

SummaryReturned == fnArg.fn = "summarizeResults" /\ fnOut.done

\* C23: summarizeResults never throws, whatever the results (none among
\* them) and whatever the completion call does; when the call fails it
\* returns, in step order, the summary of every step, or the fallback text
\* of a step without a summary.
C23_SummarizeNeverThrows ==
  SummaryReturned =>
    /\ ~fnOut.ret.thrown
    /\ fnArg.completion = "fails" =>
         LET parts == fnOut.ret.result.parts
             rs == fnArg.results
         IN /\ fnOut.ret.result.kind = "joined"
            /\ Len(parts) = Len(rs)
            /\ \A p \in DOMAIN rs :
                 /\ parts[p].step = p
                 /\ parts[p].text = "summary" <=> rs[p].summary = "text"
                 /\ rs[p].summary # "text" =>
                      parts[p].text \in
                        { "Error executing", "No data found", "quote",
                          "Found news articles", "Found web results",
                          "Retrieved chart data points", "Completed" }

\* The completion call failed on two results, the first a failed step
\* without a summary, and the joined texts came back.
C23_Witness ==
  /\ SummaryReturned
  /\ fnArg.completion = "fails"
  /\ Len(fnArg.results) = 2
  /\ fnArg.results[1].error # "none"
  /\ fnArg.results[2].summary = "text"
  /\ ~fnOut.ret.thrown
  /\ fnOut.ret.result.parts[1].text = "Error executing"

\* C24: the events the SSE consumer yields for a response body are the same
\* however the reads split the body into chunks.
C24_SplitInvariant ==
  (fnArg.fn = "SSEConsumer" /\ fnOut.done) => fnOut.split = fnOut.whole

\* The events of the steps that were written to the stream (a write after
\* the disconnect fails and is no event), without the heartbeats
IsStepEvent(o) == o.ok /\ o.ev \in {"stepStart", "stepComplete", "stepError"}

StepEvents == SelectSeq(ops, IsStepEvent)

\* C25: the steps run one at a time in plan order.  In plan-run the step
\* events alternate, the start of step k and then its terminal event, for
\* k = 1, 2, ...; while executeStep of step i is awaited the results of the
\* steps before it are recorded.  In executeSteps onProgress is called with
\* increasing index, each call after the result of its step was pushed and
\* before the next step starts.
C25_OneStepAtATime ==
  /\ route = "plan-run" =>
       /\ \A p \in DOMAIN StepEvents :
            IF p % 2 = 1
            THEN /\ StepEvents[p].ev = "stepStart"
                 /\ StepEvents[p].idx = (p + 1) \div 2
            ELSE /\ StepEvents[p].ev \in {"stepComplete", "stepError"}
                 /\ StepEvents[p].idx = p \div 2
       /\ \A p \in DOMAIN results : results[p].step = p
       /\ pc \in {"pr_arm", "pr_exec"} =>
            /\ Len(results) = i - 1
            /\ Len(StepEvents) = 2 * i - 1
  /\ route = "executeSteps" =>
       /\ \A p \in DOMAIN ops : ops[p].ev = "onProgress" /\ ops[p].idx = p
       /\ \A p \in DOMAIN results : results[p].step = p
       /\ Len(ops) = Len(results)
       /\ pc = "ex_loop" => Len(results) = i - 1

\* C25 witness: plan-run awaits executeStep of the second step, after the
\* first step ended
C25_Witness ==
  /\ route = "plan-run" /\ pc = "pr_exec" /\ i = 2
  /\ Len(StepEvents) = 3
  /\ Len(results) = 1

\* The fetch of a turn is one that fetchWithRetry retries: a 5xx response, a
\* network error or a timeout
Retried(o) == o.kind \in {"network", "abort"} \/ o.status >= 500

FetchState == IF fnOut = NoOut THEN FetchStart ELSE fnOut

\* What holds of fetchWithRetry at every moment
FetchBounded ==
  fnArg.fn = "fetchWithRetry" =>
    LET st == FetchState
        n == Len(st.fetches)
    IN /\ n <= fnArg.retries + 1
       /\ ~st.done => n <= fnArg.retries
       /\ \A p \in 1..(n - 1) : Retried(st.fetches[p])
       /\ Len(st.waits) = IF n = 0 THEN 0 ELSE n - 1
       /\ \A k \in DOMAIN st.waits : st.waits[k] = fnArg.retryDelay * k
       /\ st.done =>
            IF Retried(st.fetches[n])
            THEN st.thrown /\ n = fnArg.retries + 1
            ELSE ~st.thrown /\ st.status = st.fetches[n].status

\* C26: fetchWithRetry ends after at most retries + 1 fetches: a 2xx or 4xx
\* response is returned at once; a 5xx response, a network error or a
\* timeout is retried while attempts remain, after a wait of retryDelay
\* times the attempt number; when they are exhausted it throws.
C26_RetryTerminates ==
  /\ []FetchBounded
  /\ <>(fnArg.fn = "fetchWithRetry" => fnOut.done)

\* C26 witness: the third fetch of a call with two retries fails like the two
\* before it and fetchWithRetry throws, after waits of 500 and 1000
C26_Witness ==
  /\ fnArg.fn = "fetchWithRetry" /\ fnArg.retries = 2
  /\ fnOut.done /\ fnOut.thrown
  /\ Len(fnOut.fetches) = 3
  /\ fnOut.fetches[1].kind = "response" /\ fnOut.fetches[2].kind = "abort"
  /\ fnOut.waits = << 500, 1000 >>

\* The lines of a body before its [DONE] line
RECURSIVE BeforeDone(_)
BeforeDone(lines) ==
  IF lines = << >> \/ Head(lines).kind = "done" THEN << >>
  ELSE << Head(lines) >> \o BeforeDone(Tail(lines))

\* The lines before the first malformed one
RECURSIVE BeforeMalformed(_)
BeforeMalformed(lines) ==
  IF lines = << >> \/ Head(lines).kind = "malformed" THEN << >>
  ELSE << Head(lines) >> \o BeforeMalformed(Tail(lines))

IsContent(line) == line.kind = "content"

\* The text increments of some lines
Increments(lines) ==
  LET cs == SelectSeq(lines, IsContent) IN [ p \in DOMAIN cs |-> cs[p].text ]

\* The upstream fails: the request is refused, a line is malformed, or the
\* read fails before [DONE]
UpstreamFails(u) ==
  \/ ~u.httpOk
  \/ \E p \in DOMAIN BeforeDone(u.lines) : u.lines[p].kind = "malformed"
  \/ BeforeDone(u.lines) = u.lines /\ u.readEnd = "readError"

AnswerGenerated == fnArg.fn = "generateFinalAnswer" /\ fnOut.done

\* C27: the answer generator passes the upstream through: it yields the
\* increments in order, and when the upstream fails after k increments it
\* yields those k and then throws; a failure is never a normal end.
C27_FailurePropagates ==
  AnswerGenerated =>
    LET u == fnArg.upstream
    IN IF UpstreamFails(u)
       THEN /\ fnOut.ret.thrown
            /\ fnOut.ret.yielded = Increments(BeforeMalformed(BeforeDone(u.lines)))
       ELSE /\ ~fnOut.ret.thrown
            /\ fnOut.ret.yielded = Increments(BeforeDone(u.lines))

\* The plan the client shows
ClientPlan ==
  IF fnArg.fn = "handleSubmit" /\ fnOut # NoOut THEN fnOut.plan ELSE << >>

\* How far a status is on the way pending, running, done or failed
Rank(status) ==
  CASE status = "pending" -> 0 [] status = "running" -> 1 [] OTHER -> 2

\* C28: the status of a step of the client's plan only moves forward along
\* pending, running, done or failed, and a done or failed step keeps its
\* status.
C28_StatusOnlyForward ==
  [][ \A k \in DOMAIN ClientPlan \cap DOMAIN ClientPlan' :
        \/ ClientPlan'[k] = ClientPlan[k]
        \/ Rank(ClientPlan[k]) < Rank(ClientPlan'[k]) ]_vars

\* C29: when the client sends the /answer request every step of its plan
\* is done or failed, however the plan-run stream ended.
C29_TerminalBeforeAnswer ==
  (fnArg.fn = "handleSubmit" /\ fnOut.done /\ fnOut.answerSent)
    => \A k \in DOMAIN fnOut.plan : fnOut.plan[k] \in {"done", "failed"}

CalledTwice == fnArg.fn = "executeStepTwice" /\ fnOut.done

\* C30: two calls of executeStep with the same step, the same context, the
\* same provider availability and the same provider answers return results
\* with the same provider tag and the same summary.
C30_SameProviderAndSummary ==
  CalledTwice =>
    /\ ~fnOut.first.thrown /\ ~fnOut.second.thrown
    /\ fnOut.first.result.provider = fnOut.second.result.provider
    /\ fnOut.first.result.summary = fnOut.second.result.summary

\* C30 witness: both searches of a combined step fail; the two calls report
\* different errors, and the same provider and summary
C30_Witness ==
  /\ CalledTwice
  /\ Branch(fnArg.input.kw, fnArg.input.ticker) = "combinedTicker"
  /\ fnOut.first.result.error # fnOut.second.result.error
  /\ fnOut.first.result.provider = "combined"

PlanRefined == fnArg.fn = "refinePlan" /\ fnOut.done

\* The entries of an array that have a title and a description
IsValidEntry(e) == Truthy(e.title) /\ Truthy(e.description)

\* C31: refinePlan never throws: for a JSON array it returns the valid
\* entries in order (none for an empty array), and an empty array when the
\* completion call fails, the response is no JSON or no array.
C31_RefineNeverThrows ==
  PlanRefined =>
    /\ ~fnOut.ret.thrown
    /\ fnArg.response.kind # "array" => fnOut.ret.steps = << >>
    /\ (fnArg.response.kind = "array"
          /\ \A p \in DOMAIN fnArg.response.items :
               fnArg.response.items[p].type # "null")
         => LET valid == SelectSeq(fnArg.response.items, IsValidEntry)
            IN /\ Len(fnOut.ret.steps) = Len(valid)
               /\ \A p \in DOMAIN valid :
                    fnOut.ret.steps[p].title.pos = valid[p].title.str.pos

\* C32: for a result that has a summary, summarizeResult returns it
\* unchanged without a model call when its length is between 20 and 200
\* inclusive; outside that band it makes exactly one model call and returns
\* the summary itself if the call fails.
C32_BandInclusive ==
  (fnArg.fn = "summarizeResult" /\ fnOut.done /\ fnArg.len > 0) =>
    IF fnArg.len >= 20 /\ fnArg.len <= 200
    THEN fnOut.ret.modelCalls = 0 /\ fnOut.ret.text = "existing"
    ELSE /\ fnOut.ret.modelCalls = 1
         /\ fnArg.completion = "fails" => fnOut.ret.text = "existing"

ChartReturned == fnArg.fn = "executeChartStep" /\ fnOut.done

\* The candles the provider has for the step: none when FMP has no key,
\* when its call failed, or when it has none
NoCandles == ~fnArg.env.fmpKey \/ fnArg.env.fmpCandles = "empty"

\* C33: the chart step calls the candle provider first and searches the web
\* only if there are no candles; its result is fmp_chart with the candles,
\* or brave_web with the web results.
C33_CandlesThenWeb ==
  ChartReturned =>
    /\ fnOut.calls[1] = "fmp.getIntradayChart"
    /\ (\E p \in DOMAIN fnOut.calls : fnOut.calls[p] = "brave.searchWeb") <=> NoCandles
    /\ \A p \in DOMAIN fnOut.calls : fnOut.calls[p] = "brave.searchWeb" => p = 2
    /\ ~fnOut.ret.thrown =>
         IF NoCandles
         THEN /\ fnOut.ret.result.provider = "brave_web"
              /\ fnOut.ret.result.data =
                   (IF fnArg.env.braveWeb = "data" THEN "list" ELSE "emptyList")
         ELSE /\ fnOut.ret.result.provider = "fmp_chart"
              /\ fnOut.ret.result.data = "list"

\* C33 witness: FMP has a key and no candles, and the web search answers
C33_Witness ==
  /\ ChartReturned
  /\ fnArg.env.fmpKey /\ fnArg.env.fmpCandles = "empty"
  /\ fnOut.calls = << "fmp.getIntradayChart", "brave.searchWeb" >>
  /\ fnOut.ret.result.provider = "brave_web"

\* The event names of the messages of the body that was read
SentEvents ==
  CHOOSE ms \in UNION { [1..n -> { <<"a">>, <<"b">> }] : n \in 1..MaxMessages } :
    Concat([ p \in DOMAIN ms |-> SSEMessage(ms[p], <<"1">>) ]) = fnArg.body

\* C34: for a chunk with several complete messages the SSE consumer yields
\* one item per message, in order, each with the message's own event name and
\* data, also when two messages have the same event name.
C34_OneItemPerMessage ==
  (fnArg.fn = "SSEConsumer" /\ fnOut.done) =>
    fnOut.whole = [ p \in DOMAIN SentEvents |->
                      [ event |-> SentEvents[p], data |-> <<"1">> ] ]

\* C35: in plan-run at most one heartbeat interval is active at any time,
\* the one of the step being executed, and none is active once the step loop
\* is left or the writer is closed.
C35_IntervalsCleared ==
  /\ Cardinality(timers) <= 1
  /\ timers # {} =>
       /\ route = "plan-run"
       /\ pc \in {"pr_exec", "pr_stepCatch"}
       /\ timers = {i}

\* C35 witness: the interval of a step fired, the write of the step's
\* stepComplete event failed, and the writer is closed with no interval left
C35_Witness ==
  /\ route = "plan-run" /\ pc = "closed" /\ timers = {}
  /\ \E p \in DOMAIN ops, b \in DOMAIN ops :
       /\ ops[p].ev = "stepProgress" /\ ops[b].ev = "stepComplete"
       /\ ops[p].idx = ops[b].idx /\ p < b /\ ~ops[b].ok

\* C36: a submitted chat turn ends with isLoading false and exactly one
\* assistant message appended for the turn, the answer or an error message,
\* also when the answer stream delivers an error event or closes without a
\* done event.
C36_OneAssistantMessage ==
  (fnArg.fn = "handleSubmitAnswer" /\ fnOut.done) =>
    /\ ~fnOut.isLoading
    /\ Len(fnOut.messages) = 1

\* The event the client handled last
LastEvent == fnArg.stream[ClientState.pos]

\* The client is between the stepStart event of a step and the step's
\* stepComplete or stepError event: the last event it handled is the
\* stepStart or a stepProgress of the step
InsideStep ==
  /\ fnArg.fn = "handleSubmit" /\ fnArg.httpOk
  /\ ClientState.pos > 0
  /\ LastEvent.ev \in {"stepStart", "stepProgress"}

\* C37: from the stepStart event of step i until its stepComplete or
\* stepError event the client's plan shows step i as running, also after
\* each stepProgress event of the step.
C37_RunningUntilTerminal ==
  InsideStep => ClientState.plan[LastEvent.idx] = "running"

\* C38: with the question passed to executeStep as the context, the first
\* step of the fallback plan of a ticker-plus-price question is executed by
\* the quote branch and the second by the ticker-news branch.
C38_FallbackBranches ==
  (fnArg.fn = "executeFallbackPlan" /\ fnOut.done) =>
    fnOut.branches = << "quote", "tickerNews" >>

GeneralSearched == fnArg.fn = "executeGeneralSearchStep" /\ fnOut.done

\* The list a search gives searchBoth: its result, or, when the parallel
\* search failed, the result of the second run, empty when that fails too
ListOf(first, retry, parallelFailed) ==
  LET o == IF parallelFailed THEN retry ELSE first
  IN IF o = "data" THEN "list" ELSE "emptyList"

\* C39: searchBoth never throws: when the parallel search fails each search
\* is run once more and an empty list stands for a search that fails again;
\* the general search step returns provider combined and no error.
C39_SearchBothNeverThrows ==
  GeneralSearched =>
    LET env == fnArg.env
        parallelFailed == env.braveNews = "throw" \/ env.braveWeb = "throw"
    IN /\ ~fnOut.both.thrown
       /\ fnOut.both.result.news = ListOf(env.braveNews, env.braveNewsRetry, parallelFailed)
       /\ fnOut.both.result.web = ListOf(env.braveWeb, env.braveWebRetry, parallelFailed)
       /\ ~fnOut.ret.thrown
       /\ fnOut.ret.result.provider = "combined"
       /\ fnOut.ret.result.error = "none"

\* C39 witness: both searches fail in the parallel run and again on their
\* own
C39_Witness ==
  /\ GeneralSearched
  /\ fnArg.env.braveNews = "throw" /\ fnArg.env.braveWeb = "throw"
  /\ fnArg.env.braveNewsRetry = "throw" /\ fnArg.env.braveWebRetry = "throw"
  /\ fnOut.both.result = [ news |-> "emptyList", web |-> "emptyList" ]
  /\ fnOut.ret.result.provider = "combined"

\* The increments of the messages before the first end marker
RECURSIVE TokensBeforeDone(_)
TokensBeforeDone(kinds) ==
  IF kinds = << >> \/ Head(kinds) = "done" THEN << >>
  ELSE IF Head(kinds) \in {"a", "b"}
  THEN << << Head(kinds) >> >> \o TokensBeforeDone(Tail(kinds))
  ELSE TokensBeforeDone(Tail(kinds))

\* C40: streamComplete yields the same sequence of content tokens however
\* the body is split into read chunks, and nothing after the data: [DONE]
\* line.
C40_ChunkingInvariant ==
  (fnArg.fn = "streamCompleteChunks" /\ fnOut.done) =>
    /\ fnOut.split = fnOut.whole
    /\ fnOut.whole = TokensBeforeDone(fnArg.kinds)

\* C40 witness: two increments, the first line cut in three reads
C40_Witness ==
  /\ fnArg.fn = "streamCompleteChunks" /\ fnOut.done
  /\ fnArg.kinds = << "a", "b" >> /\ fnArg.cut = 3 /\ fnArg.mid = 1
  /\ fnOut.split = << << "a" >>, << "b" >> >>

====
